---- MODULE Spec2Model ----
(***************************************************************************)
(* State-machine model of the text-to-image demo:                          *)
(*   - chatbot/backend MCPService (tool catalogue, call_tool retry loop)   *)
(*   - chatbot/backend streaming chat completion (SSE generator)           *)
(*   - mcp-server KServeClient._make_request_with_retry                    *)
(*   - mcp-server storage backends (per-instance asyncio lock)             *)
(*   - mcp-server FileStorage and S3Storage run side by side on one call   *)
(*     sequence                                                            *)
(*   - mcp-server image server: generate_image and GET /images/{image_id}  *)
(*   - mcp-server application lifecycle: startup, shutdown, accessors      *)
(*   - mcp-server CleanupTask: start, stop and the cleanup loop            *)
(* Each component has its own specification over the shared variables; the *)
(* variables of the other components stay at their initial values.         *)
(***************************************************************************)
EXTENDS Integers, Sequences, FiniteSets, TLC

VARIABLES
    \* ---- MCPService (chatbot/backend/app/services/mcp_service.py) ----
    client,        \* self.client is set (TRUE) or None (FALSE)
    tools,         \* names of self.tools
    config,        \* self._config: "none" | "empty" | "file"
    initialized,   \* self._initialized
    configLoaded,  \* self._config_loaded
    initPc,        \* position of the initialize() coroutine
    initResult,    \* how the last initialize() ended
    callPc,        \* position of the call_tool() coroutine
    callName,      \* name argument of the call in flight
    callArgs,      \* arguments argument of the call in flight
    sanitizedArgs, \* sanitized_args
    attempt,       \* loop variable of "for attempt in range(MAX_RETRIES)"
    execLog,       \* outcome of every loop iteration so far (history)
    lastError,     \* last_error
    sleeps,        \* delays passed to asyncio.sleep so far (history)
    callResult,    \* what call_tool returned or raised
    \* ---- streaming chat completion (chat/router.py) ----
    streamPc,      \* position of generate_streaming_response
    streamMsg,     \* request.message
    events,        \* the SSE events yielded so far
    pending,       \* characters of full_message / error_msg still to yield
    chunks,        \* chunks received from get_streaming_completion (history)
    failure,       \* "none" | "setup" | "llm": what failed in this stream
    \* ---- KServeClient._make_request_with_retry (kserve/client.py) ----
    kMaxRetries,   \* self.max_retries
    kPc,           \* position of _make_request_with_retry
    kAttempt,      \* loop variable of "for attempt in range(max_retries + 1)"
    kRequests,     \* outcome of every client.request so far (history)
    kLastException,\* last_exception
    kDelays,       \* delays passed to asyncio.sleep so far (history)
    kResult,       \* the response returned or the error raised
    \* ---- storage backend (storage/base.py, storage/file.py) ----
    locked,        \* self._lock is held
    waiters,       \* tasks queued on self._lock, in arrival order
    tpc,           \* position of each task in its storage operation
    targ,          \* arguments of each task's operation
    tres,          \* at each task, the result of its call if that returned last
    img,           \* <id>.png files: content and modification time, or absent
    meta,          \* <id>.json files: "ok", truncated "bad", or absent
    now,           \* the clock, time.time()
    \* ---- FileStorage and S3Storage given the same calls (storage/file.py, s3.py) ----
    fileStore,     \* the directory of a FileStorage: <id>.png and <id>.json files
    s3Store,       \* the bucket of an S3Storage: <prefix><id>.png and .json objects
    clock,         \* the clock both backends read
    lastCall,      \* the last call made on both, with each backend's result
    \* ---- image server (api/mcp_server.py, api/routes.py) ----
    srvStore,      \* the directory of the server's FileStorage
    generated,     \* what the last generate_image returned or raised
    httpResp,      \* the response to the last GET /images/{image_id}
    genStages,     \* the stages the last generate_image went through, in order
    toolResp,      \* the response to the last POST /mcp/v1/tools/generate_image
    \* ---- application lifecycle (api/app.py) ----
    app_state,     \* for each slot of app_state, whether it holds an object
    startupPc,     \* where startup() is
    shutdownPc,    \* whether shutdown() is running, has returned or raised
    shutdownBlock, \* the block of shutdown() that comes next while it runs
    shutdownLog,   \* the steps the running or last shutdown() made, in order
    lastAccess,    \* the last accessor call and what it did
    kserveCloses,  \* close() calls the KServe client received in this shutdown()
    \* ---- CleanupTask (api/background.py) ----
    interval,        \* self.interval, in seconds
    running,         \* self.running
    loopPc,          \* where the task of _cleanup_loop is; "none": self.task is None
    cancelRequested, \* task.cancel() was called and not yet delivered
    stopPc,          \* where stop() is
    sleepFor,        \* the argument of the asyncio.sleep the loop is in
    storageLockHeld, \* a request holds the lock of the storage backend
    lastSweep,       \* how the last run_cleanup() went
    failedBefore,    \* some iteration of this loop task has failed
    taskSet,         \* self.task is not None; it then refers to the loop task of loopPc
    oldPc,           \* where the loop task is that stop() awaits, once start() made another
    cleanupCall,     \* the last call of start() or stop() and whether it was a no-op
    \* ---- LiteLLMService.get_completion (chatbot/backend/app/services/litellm_service.py) ----
    compPc,        \* where the request is: in acompletion, in the tool loop, ended
    compTools,     \* mcp_service.get_tools() is not empty: tools are offered
    compRounds,    \* completion calls issued for this request, counted up to MaxRounds
    compCalls,     \* tool calls of the last response still to execute
    compTexts,     \* for each turn, whether its response had text (last MaxRounds turns)
    compResult,    \* what the request returned or raised
    \* ---- tool-call deltas of get_streaming_completion (litellm_service.py) ----
    deltas,            \* the tool-call deltas consumed from the stream so far
    tool_calls,        \* the dict tool_calls, as its entries in insertion order
    current_tool_call, \* current_tool_call
    \* ---- BackgroundTaskManager (api/background.py) ----
    mgrTasks,      \* the names of self.tasks, in insertion order
    mgrRunning,    \* self.running
    mgrPc,         \* "idle" | "starting" | "stopping": where start_all / stop_all is
    mgrIndex,      \* how many tasks the loop of start_all has gone through
    mgrInvoked,    \* the tasks whose start() / stop() this call has invoked, in order
    mgrFailed,     \* the tasks whose start() / stop() raised in this call
    mgrResult,     \* what the last start_all / stop_all did
    \* ---- HealthCheckTask (api/background.py) ----
    failure_threshold,    \* self.failure_threshold
    consecutive_failures, \* self.consecutive_failures
    last_status,          \* the "service" field of self.last_status, "none" before any
    healthRunning,        \* self.running
    healthPc,             \* where the task of _health_check_loop is
    healthLog,            \* the level of the last message _run_health_check logged
    failedChecks,         \* failed checks since the last healthy one (history)
    \* ---- DiffusersModel and its __main__ block (diffusers-runtime/model.py) ----
    runtimeEnv,    \* DTYPE, the device, the GPU's bfloat16 answers, the config's dtype
    mainPc,        \* where the __main__ block is
    loads,         \* how many calls of load() have returned
    modelReady,    \* self.ready
    resolvedDtype  \* torch_dtype of the last load(), "none" before any

mcpVars == <<client, tools, config, initialized, configLoaded, initPc,
             initResult, callPc, callName, callArgs, sanitizedArgs, attempt,
             execLog, lastError, sleeps, callResult>>

streamVars == <<streamPc, streamMsg, events, pending, chunks, failure>>

kserveVars == <<kMaxRetries, kPc, kAttempt, kRequests, kLastException, kDelays, kResult>>

storageVars == <<locked, waiters, tpc, targ, tres, img, meta, now>>

backendVars == <<fileStore, s3Store, clock, lastCall>>

\* the components of the first group and of the second
firstVars == <<mcpVars, streamVars, kserveVars, storageVars>>

imageServerVars == <<srvStore, generated, httpResp, genStages, toolResp>>

appVars == <<app_state, startupPc, shutdownPc, shutdownBlock, shutdownLog, lastAccess,
             kserveCloses>>

cleanupVars == <<interval, running, loopPc, cancelRequested, stopPc, sleepFor,
                 storageLockHeld, lastSweep, failedBefore, taskSet, oldPc, cleanupCall>>

serverVars == <<backendVars, imageServerVars, appVars, cleanupVars>>

completionVars == <<compPc, compTools, compRounds, compCalls, compTexts, compResult>>

deltaVars == <<deltas, tool_calls, current_tool_call>>

managerVars == <<mgrTasks, mgrRunning, mgrPc, mgrIndex, mgrInvoked, mgrFailed, mgrResult>>

healthVars == <<failure_threshold, consecutive_failures, last_status, healthRunning,
                healthPc, healthLog, failedChecks>>

\* the components of the third group
diffusersVars == <<runtimeEnv, mainPc, loads, modelReady, resolvedDtype>>

laterVars == <<completionVars, deltaVars, managerVars, healthVars, diffusersVars>>

vars == <<firstVars, serverVars, laterVars>>

\* the variables of the other components, which a component's step leaves alone
notMCP == <<streamVars, kserveVars, storageVars, serverVars, laterVars>>

notStream == <<mcpVars, kserveVars, storageVars, serverVars, laterVars>>

notKServe == <<mcpVars, streamVars, storageVars, serverVars, laterVars>>

notStorage == <<mcpVars, streamVars, kserveVars, serverVars, laterVars>>

notBackends == <<firstVars, imageServerVars, appVars, cleanupVars, laterVars>>

notImageServer == <<firstVars, backendVars, appVars, cleanupVars, laterVars>>

notApp == <<firstVars, backendVars, imageServerVars, cleanupVars, laterVars>>

notCleanup == <<firstVars, backendVars, imageServerVars, appVars, laterVars>>

notCompletion == <<firstVars, serverVars, deltaVars, managerVars, healthVars, diffusersVars>>

notDeltas == <<firstVars, serverVars, completionVars, managerVars, healthVars, diffusersVars>>

notManager == <<firstVars, serverVars, completionVars, deltaVars, healthVars, diffusersVars>>

notHealth == <<firstVars, serverVars, completionVars, deltaVars, managerVars, diffusersVars>>

notDiffusers == <<firstVars, serverVars, completionVars, deltaVars, managerVars, healthVars>>

(***************************************************************************)
(* MCPService constants                                                    *)
(***************************************************************************)
MAX_TOOL_NAME_LENGTH == 100
MAX_ARG_KEY_LENGTH == 100
MAX_RETRIES == 3
RETRY_DELAY_SECONDS == 1

(***************************************************************************)
(* Strings are sequences of characters.  "LF" stands for the newline       *)
(* character, "CTL" for a control character below 32 other than \n \r \t.  *)
(***************************************************************************)
AlnumChars == {"a", "Z", "7"}
NameChars == AlnumChars \cup {"_", "-", "."}

Repeat(c, n) == [i \in 1..n |-> c]

AllIn(s, S) == \A i \in 1..Len(s) : s[i] \in S

\* VALID_TOOL_NAME_PATTERN.match(name) for ^[a-zA-Z0-9_\-\.]+$ : in Python "$"
\* matches at the end of the string and also just before a final newline.
PatternMatch(name) ==
    \/ Len(name) >= 1 /\ AllIn(name, NameChars)
    \/ /\ Len(name) >= 2
       /\ name[Len(name)] = "LF"
       /\ AllIn(SubSeq(name, 1, Len(name) - 1), NameChars)

\* _validate_tool_name: TRUE when it raises MCPValidationError
ToolNameRejected(name) ==
    \/ Len(name) = 0
    \/ Len(name) > MAX_TOOL_NAME_LENGTH
    \/ ~PatternMatch(name)

\* key.replace('_','').replace('-','').replace('.','').isalnum()
StripPunct(s) == SelectSeq(s, LAMBDA c : c \notin {"_", "-", "."})

IsAlnum(s) == Len(s) >= 1 /\ AllIn(s, AlnumChars)

\* An argument key: a string, or some other hashable object.
KeyRejected(key) ==
    \/ ~key.isStr
    \/ Len(key.chars) > MAX_ARG_KEY_LENGTH
    \/ ~IsAlnum(StripPunct(key.chars))

\* value sanitation: control characters are removed from strings; nested
\* structures must be JSON serializable; anything else passes unchanged.
SanitizeString(s) == SelectSeq(s, LAMBDA c : c # "CTL")

ValueRejected(v) == v.kind = "nested" /\ ~v.serializable

SanitizeValue(v) ==
    IF v.kind = "str" THEN [v EXCEPT !.chars = SanitizeString(v.chars)] ELSE v

\* _sanitize_arguments: arguments are "notdict" or a dict, given as the
\* sequence of its items in insertion order.
ArgumentsRejected(arguments) ==
    \/ ~arguments.isDict
    \/ \E i \in 1..Len(arguments.items) :
          \/ KeyRejected(arguments.items[i].key)
          \/ ValueRejected(arguments.items[i].value)

SanitizeArguments(arguments) ==
    [arguments EXCEPT !.items =
        [i \in 1..Len(arguments.items) |->
            [key |-> arguments.items[i].key,
             value |-> SanitizeValue(arguments.items[i].value)]]]

(***************************************************************************)
(* Inputs of the MCPService model                                          *)
(***************************************************************************)
\* representative tool names: empty, valid, with a character outside the
\* pattern, with a final or a lone newline, and at and beyond the length limit
ToolNameInputs ==
    {<<>>, <<"a">>, <<"a", "_">>, <<"$">>, <<"a", "$">>, <<"LF">>, <<"a", "LF">>,
     Repeat("a", MAX_TOOL_NAME_LENGTH), Repeat("a", MAX_TOOL_NAME_LENGTH + 1)}

ArgKeyInputs ==
    {[isStr |-> TRUE, chars |-> s] :
        s \in {<<>>, <<"a">>, <<"a", "_">>, <<"_">>, <<"a", "$">>,
               Repeat("a", MAX_ARG_KEY_LENGTH + 1)}}
        \cup {[isStr |-> FALSE, chars |-> <<>>]}

ArgValueInputs ==
    {[kind |-> "str", chars |-> <<"a", "CTL", "LF">>, serializable |-> TRUE],
     [kind |-> "nested", chars |-> <<>>, serializable |-> TRUE],
     [kind |-> "nested", chars |-> <<>>, serializable |-> FALSE],
     [kind |-> "int", chars |-> <<>>, serializable |-> TRUE]}

NotADict == [isDict |-> FALSE, items |-> <<>>]

IntValue == [kind |-> "int", chars |-> <<>>, serializable |-> TRUE]

GoodKey == [isStr |-> TRUE, chars |-> <<"a">>]

ArgumentInputs ==
    {NotADict, [isDict |-> TRUE, items |-> <<>>]}
        \cup {[isDict |-> TRUE, items |-> <<[key |-> k, value |-> IntValue]>>] :
                 k \in ArgKeyInputs}
        \cup {[isDict |-> TRUE, items |-> <<[key |-> GoodKey, value |-> v]>>] :
                 v \in ArgValueInputs}

\* tool catalogues a configured set of MCP servers may announce
ServerCatalogues ==
    {{}, {<<"a">>}, {<<"a">>, <<"a", "_">>, <<"a", "LF">>}}

\* str(e) of a failure, as a sequence of words
ErrorMessages ==
    {<<"Connection", "refused">>, <<"NETWORK", "unreachable">>,
     <<"Temporary", "failure">>}

NoClientMessage == <<"NoneType", "object">>

Lower(w) ==
    CASE w = "Connection" -> "connection"
      [] w = "NETWORK" -> "network"
      [] w = "Temporary" -> "temporary"
      [] w = "NoneType" -> "nonetype"
      [] OTHER -> w

\* "word" in str(e).lower()
MessageContains(msg, word) == \E i \in 1..Len(msg) : Lower(msg[i]) = word

ConnectionFlavoured(msg) ==
    MessageContains(msg, "connection") \/ MessageContains(msg, "network")

\* the list a tool execution returns: items with or without a text attribute
ResultItems ==
    {[hasText |-> TRUE, text |-> "sunny", str |-> "TextContent(sunny)"],
     [hasText |-> FALSE, text |-> "", str |-> "Blob(42)"]}

ResultLists == {<<>>} \cup {<<i>> : i \in ResultItems}

NoOutputText == "Tool executed successfully with no output"

\* what one execution attempt (async with client / wait_for(call_tool)) does
ExecOutcomes ==
    {[kind |-> "ok", msg |-> <<>>, result |-> r] : r \in ResultLists}
        \cup {[kind |-> "timeout", msg |-> <<>>, result |-> <<>>]}
        \cup {[kind |-> "error", msg |-> m, result |-> <<>>] : m \in ErrorMessages}

\* how "async with self.client: list_tools()" may end
DiscoveryOutcomes == {o \in ExecOutcomes : o.result = <<>>}

NoClientOutcome == [kind |-> "error", msg |-> NoClientMessage, result |-> <<>>]

NoError == [kind |-> "none", msg |-> <<>>, result |-> <<>>]

NoResult == [kind |-> "none", msg |-> <<>>, value |-> ""]

Raised(k, m) == [kind |-> k, msg |-> m, value |-> ""]

Returned(v) == [kind |-> "return", msg |-> <<>>, value |-> v]

NoArgs == [isDict |-> TRUE, items |-> <<>>]

serviceVars == <<client, tools, config, initialized, configLoaded, initPc, initResult>>

callVars == <<callPc, callName, callArgs, sanitizedArgs, attempt, execLog, lastError,
              sleeps, callResult>>

(***************************************************************************)
(* MCPService lifecycle                                                    *)
(***************************************************************************)
\* _load_config_and_client, reading a config file in the given condition:
\* "missing", "valid", "invalid_json", or "client_fails" (Client(...) raises)
LoadedConfig(file) ==
    CASE file = "missing" -> "empty"
      [] file = "valid" -> "file"
      [] file = "invalid_json" -> config
      [] OTHER -> "none"

LoadedClient(file) ==
    CASE file \in {"missing", "valid"} -> TRUE
      [] file = "invalid_json" -> client
      [] OTHER -> FALSE

LoadConfigAndClient(file) ==
    /\ ~configLoaded
    /\ configLoaded' = TRUE
    /\ config' = LoadedConfig(file)
    /\ client' = LoadedClient(file)
    /\ UNCHANGED <<tools, initialized, initPc, initResult>>
    /\ UNCHANGED callVars
    /\ UNCHANGED notMCP

InitializeCallAgain ==
    /\ initPc = "idle"
    /\ initialized' = TRUE
    /\ IF ~client
       THEN initResult' = "no_client" /\ initPc' = initPc
       ELSE initResult' = initResult /\ initPc' = "discovering"
    /\ UNCHANGED <<client, tools, config, configLoaded>>
    /\ UNCHANGED callVars
    /\ UNCHANGED notMCP

\* initialize() up to its first suspension point
InitializeCall ==
    IF initialized
    THEN /\ initResult' = "noop"
         /\ UNCHANGED <<client, tools, config, initialized, configLoaded, initPc>>
         /\ UNCHANGED callVars
         /\ UNCHANGED notMCP
    ELSE /\ initPc = "idle"
         /\ initialized' = TRUE
         /\ IF ~client
            THEN initResult' = "no_client" /\ initPc' = initPc
            ELSE initResult' = initResult /\ initPc' = "discovering"
         /\ UNCHANGED <<client, tools, config, configLoaded>>
         /\ UNCHANGED callVars
         /\ UNCHANGED notMCP

\* tool names announced by the servers of the loaded configuration
Discoverable(catalogue) == IF config = "file" THEN catalogue ELSE {}

\* the rest of initialize(): "async with self.client: list_tools()" completes
\* with a catalogue, times out, or fails with a message
DiscoveredTools(outcome, catalogue) ==
    CASE outcome.kind = "timeout" -> tools
      [] outcome.kind = "error" -> {}
      [] ~client \/ config = "none" -> {}
      [] OTHER -> Discoverable(catalogue)

DiscoveryResult(outcome) ==
    CASE outcome.kind = "timeout" -> "MCPConnectionError"
      [] outcome.kind = "error" ->
            IF MessageContains(outcome.msg, "connection")
            THEN "MCPConnectionError" ELSE "swallowed"
      [] ~client \/ config = "none" -> "swallowed"
      [] OTHER -> "ok"

InitializeFinish(outcome, catalogue) ==
    /\ initPc = "discovering"
    /\ initPc' = "idle"
    /\ tools' = DiscoveredTools(outcome, catalogue)
    /\ initResult' = DiscoveryResult(outcome)
    /\ UNCHANGED <<client, config, initialized, configLoaded>>
    /\ UNCHANGED callVars
    /\ UNCHANGED notMCP

ShutdownKeepsTools ==
    /\ client' = FALSE
    /\ tools' = tools
    /\ initialized' = FALSE
    /\ configLoaded' = FALSE
    /\ config' = "none"
    /\ UNCHANGED <<initPc, initResult>>
    /\ UNCHANGED callVars
    /\ UNCHANGED notMCP

Shutdown ==
    /\ client' = FALSE
    /\ tools' = {}
    /\ initialized' = FALSE
    /\ configLoaded' = FALSE
    /\ config' = "none"
    /\ UNCHANGED <<initPc, initResult>>
    /\ UNCHANGED callVars
    /\ UNCHANGED notMCP

(***************************************************************************)
(* MCPService.call_tool                                                    *)
(***************************************************************************)
\* the checks before the retry loop, in the order the code makes them;
\* NoResult when the call passes all of them
Preflight(name, arguments) ==
    CASE ~client ->
            Raised("MCPConnectionError", <<"not", "initialized">>)
      [] ToolNameRejected(name) ->
            Raised("MCPValidationError", <<"tool", "name">>)
      [] ArgumentsRejected(arguments) ->
            Raised("MCPValidationError", <<"arguments">>)
      [] name \notin tools ->
            Raised("MCPToolNotFoundError", name)
      [] OTHER -> NoResult

\* result[0].text if it has one, else str(result[0]); a fixed text for no output
ResultText(result) ==
    IF Len(result) > 0
    THEN (IF result[1].hasText THEN result[1].text ELSE result[1].str)
    ELSE NoOutputText

IsTimeoutNever(outcome) == FALSE

\* "except asyncio.TimeoutError" takes the outcome
IsTimeout(outcome) == outcome.kind = "timeout"

RetryFollowsOffByOne(att) == att < MAX_RETRIES

\* "attempt < MAX_RETRIES - 1": another iteration follows this failure
RetryFollows(att) == att < MAX_RETRIES - 1

RetryDelayFlat(att, msg) == RETRY_DELAY_SECONDS

\* the argument of asyncio.sleep after a failure with message msg
RetryDelay(att, msg) ==
    IF ConnectionFlavoured(msg)
    THEN RETRY_DELAY_SECONDS * (att + 1)
    ELSE RETRY_DELAY_SECONDS

\* what call_tool raises when the failure of the last iteration is err
ExhaustedError(err) ==
    IF ConnectionFlavoured(err.msg)
    THEN Raised("MCPConnectionError", err.msg)
    ELSE Raised("MCPToolExecutionError", err.msg)

\* call_tool up to its first suspension point
CallTool(name, arguments) ==
    /\ callPc = "idle"
    /\ callName' = name
    /\ callArgs' = arguments
    /\ callResult' = Preflight(name, arguments)
    /\ IF Preflight(name, arguments) = NoResult
       THEN /\ callPc' = "attempt"
            /\ sanitizedArgs' = SanitizeArguments(arguments)
       ELSE /\ callPc' = "done"
            /\ sanitizedArgs' = sanitizedArgs
    /\ UNCHANGED <<attempt, execLog, lastError, sleeps>>
    /\ UNCHANGED serviceVars
    /\ UNCHANGED notMCP

\* what the attempt does: the outcome of the client, or the failure of
\* "async with self.client" when shutdown() has unset the client meanwhile
Effective(outcome) == IF client THEN outcome ELSE NoClientOutcome

\* one iteration of the retry loop, up to its sleep, return or raise
Attempt(outcome) ==
    /\ callPc = "attempt"
    /\ execLog' = Append(execLog, Effective(outcome))
    /\ CASE Effective(outcome).kind = "ok" ->
              /\ callResult' = Returned(ResultText(Effective(outcome).result))
              /\ callPc' = "done"
              /\ UNCHANGED <<lastError, sleeps>>
         [] IsTimeout(Effective(outcome)) ->
              /\ callResult' = Raised("MCPTimeoutError", callName)
              /\ callPc' = "done"
              /\ UNCHANGED <<lastError, sleeps>>
         [] OTHER ->
              /\ lastError' = Effective(outcome)
              /\ IF RetryFollows(attempt)
                 THEN /\ sleeps' = Append(sleeps, RetryDelay(attempt, Effective(outcome).msg))
                      /\ callPc' = "sleep"
                      /\ callResult' = callResult
                 ELSE /\ callResult' = ExhaustedError(Effective(outcome))
                      /\ callPc' = "done"
                      /\ sleeps' = sleeps
    /\ UNCHANGED <<callName, callArgs, sanitizedArgs, attempt>>
    /\ UNCHANGED serviceVars
    /\ UNCHANGED notMCP

WakeUpForgetsTools ==
    /\ callPc = "sleep"
    /\ attempt' = attempt + 1
    /\ callPc' = "attempt"
    /\ tools' = {}
    /\ UNCHANGED <<callName, callArgs, sanitizedArgs, execLog, lastError, sleeps, callResult>>
    /\ UNCHANGED <<client, config, initialized, configLoaded, initPc, initResult>>
    /\ UNCHANGED notMCP

\* asyncio.sleep returns and "continue" starts the next iteration
WakeUp ==
    /\ callPc = "sleep"
    /\ attempt' = attempt + 1
    /\ callPc' = "attempt"
    /\ UNCHANGED <<callName, callArgs, sanitizedArgs, execLog, lastError, sleeps, callResult>>
    /\ UNCHANGED serviceVars
    /\ UNCHANGED notMCP

\* the caller has the result; the service is ready for the next call
CallReturns ==
    /\ callPc = "done"
    /\ callPc' = "idle"
    /\ callName' = <<>>
    /\ callArgs' = NoArgs
    /\ sanitizedArgs' = NoArgs
    /\ attempt' = 0
    /\ execLog' = <<>>
    /\ lastError' = NoError
    /\ sleeps' = <<>>
    /\ callResult' = NoResult
    /\ UNCHANGED serviceVars
    /\ UNCHANGED notMCP

(***************************************************************************)
(* Streaming chat completion: generate_streaming_response                  *)
(* Text is a sequence of one-character strings; the long literals of the   *)
(* source are abbreviated.                                                 *)
(***************************************************************************)
MaxChunks == 2       \* chunks one LLM stream delivers at most

MessageInputs == {<<>>, <<"H", "i">>}

ChunkInputs == {"Hel", "lo"}

\* str(llm_error) as raised by get_streaming_completion
LLMErrorInputs == {<<"k", "e", "y">>, <<"r", "a", "t", "e">>}

\* f"Echo: {request.message}\n\nNote: LLM service is not available. ..."
EchoText(message) == <<"E", "c", "h", "o", ":", " ">> \o message \o <<"LF", "LF", "N">>

\* f"\n\nError: LLM encountered an error: {str(llm_error)}"
ErrorText(err) == <<"LF", "LF", "E", ":", " ">> \o err

ContentEvent(c) == [type |-> "content", id |-> "message_id", content |-> c]

DoneEvent == [type |-> "done", id |-> "message_id", content |-> ""]

ErrorEvent(e) == [type |-> "error", id |-> "", content |-> e]

NoFailure == [where |-> "none", msg |-> <<>>]

OnLLMFailureOuter(err) == [pc |-> "closed", pending |-> <<>>, emit |-> <<ErrorEvent("llm")>>]

\* "except Exception as llm_error": the failure of the LLM stream is caught
\* inside and its text is queued to be sent as content
OnLLMFailure(err) == [pc |-> "errmsg", pending |-> ErrorText(err), emit |-> <<>>]

DoneEventsNone == <<>>

\* "Send completion message": what is yielded after the branches
DoneEvents == <<DoneEvent>>

\* the generator up to its first yield: the lazy import or is_available
\* raises ("import_fails"), the service has no API key ("unavailable"),
\* or the LLM stream is opened ("available")
StartStream(message, setup) ==
    /\ streamPc = "idle"
    /\ streamMsg' = message
    /\ CASE setup = "import_fails" ->
              /\ events' = <<ErrorEvent("import")>>
              /\ failure' = [where |-> "setup", msg |-> <<>>]
              /\ streamPc' = "closed"
              /\ pending' = pending
         [] setup = "unavailable" ->
              /\ pending' = EchoText(message)
              /\ streamPc' = "echo"
              /\ UNCHANGED <<events, failure>>
         [] OTHER ->
              /\ streamPc' = "llm"
              /\ UNCHANGED <<events, failure, pending>>
    /\ UNCHANGED chunks
    /\ UNCHANGED notStream

\* one character of full_message or error_msg is yielded as a content event
YieldChar ==
    /\ streamPc \in {"echo", "errmsg"}
    /\ pending # <<>>
    /\ events' = Append(events, ContentEvent(Head(pending)))
    /\ pending' = Tail(pending)
    /\ UNCHANGED <<streamPc, streamMsg, chunks, failure>>
    /\ UNCHANGED notStream

\* get_streaming_completion yields a chunk, which is yielded as a content event
LLMChunk(c) ==
    /\ streamPc = "llm"
    /\ Len(chunks) < MaxChunks
    /\ chunks' = Append(chunks, c)
    /\ events' = Append(events, ContentEvent(c))
    /\ UNCHANGED <<streamPc, streamMsg, pending, failure>>
    /\ UNCHANGED notStream

\* get_streaming_completion raises, before its first chunk or after some
LLMFails(err) ==
    /\ streamPc = "llm"
    /\ failure' = [where |-> "llm", msg |-> err]
    /\ streamPc' = OnLLMFailure(err).pc
    /\ pending' = OnLLMFailure(err).pending
    /\ events' = events \o OnLLMFailure(err).emit
    /\ UNCHANGED <<streamMsg, chunks>>
    /\ UNCHANGED notStream

\* the branch is over (the LLM stream ended, or every character was sent):
\* the completion message is yielded and the generator returns
StreamCompletes ==
    /\ \/ streamPc = "llm"
       \/ streamPc \in {"echo", "errmsg"} /\ pending = <<>>
    /\ events' = events \o DoneEvents
    /\ streamPc' = "closed"
    /\ UNCHANGED <<streamMsg, pending, chunks, failure>>
    /\ UNCHANGED notStream

\* the caller disconnects: the generator is closed at its current yield
Disconnect ==
    /\ streamPc \in {"echo", "llm", "errmsg"}
    /\ streamPc' = "cancelled"
    /\ UNCHANGED <<streamMsg, events, pending, chunks, failure>>
    /\ UNCHANGED notStream

\* the next request gets a new generator
NewRequest ==
    /\ streamPc \in {"closed", "cancelled"}
    /\ streamPc' = "idle"
    /\ streamMsg' = <<>>
    /\ events' = <<>>
    /\ pending' = <<>>
    /\ chunks' = <<>>
    /\ failure' = NoFailure
    /\ UNCHANGED notStream

(***************************************************************************)
(* KServeClient._make_request_with_retry                                   *)
(***************************************************************************)
MaxRetriesBound == 3     \* largest max_retries setting explored

EXPECTED_STATUS == 200
RETRY_BACKOFF_FACTOR == 2
MAX_RETRY_DELAY == 60

NoBody == [json |-> FALSE, hasError |-> FALSE, error |-> "", code |-> "", details |-> "", text |-> ""]

\* bodies of error responses: a structured error document, JSON of another
\* shape, and text that is not JSON
ErrorBodies ==
    {[json |-> TRUE, hasError |-> TRUE, error |-> "Internal server error",
      code |-> "INTERNAL_ERROR", details |-> "Something went wrong", text |-> "{...}"],
     [json |-> TRUE, hasError |-> FALSE, error |-> "", code |-> "", details |-> "",
      text |-> "{\"message\": \"x\"}"],
     [json |-> FALSE, hasError |-> FALSE, error |-> "", code |-> "", details |-> "",
      text |-> "Internal Server Error"]}

OtherErrorStatuses == {400, 500}

NonErrorStatuses == {EXPECTED_STATUS, 204, 302}

\* what one client.request does: a response, or an httpx exception
RequestOutcomes ==
    {[kind |-> "response", status |-> st, body |-> NoBody] : st \in NonErrorStatuses \cup {404, 429}}
        \cup {[kind |-> "response", status |-> st, body |-> b] :
                 st \in OtherErrorStatuses, b \in ErrorBodies}
        \cup {[kind |-> k, status |-> 0, body |-> NoBody] :
                 k \in {"ConnectError", "TimeoutException", "Exception"}}

\* an error of the KServe hierarchy: kind, the 1-based attempt that caused
\* it (0: none), and for inference errors the message, code and details
KError(kind, at, msg, code, details) ==
    [kind |-> kind, at |-> at, status |-> 0, msg |-> msg, code |-> code, details |-> details]

NoKError == KError("none", 0, "", "", "")

KResponse(st) == [kind |-> "return", at |-> 0, status |-> st, msg |-> "", code |-> "", details |-> ""]

\* response.json() succeeds and KServeErrorResponse(**error_data) validates
ParsesAsErrorResponse(body) == body.json /\ body.hasError

\* what the try block of the ">= 400" branch raises: the structured
\* inference error, or the failure to parse
RaisedInTry(resp, at) ==
    IF ParsesAsErrorResponse(resp.body)
    THEN KError("KServeInferenceError", at, resp.body.error, resp.body.code, resp.body.details)
    ELSE KError("ParseFailure", at, "", "", "")

\* KServeInferenceError(f"Request failed with status {status}: {text}")
RawInferenceError(resp, at) ==
    KError("KServeInferenceError", at, resp.body.text, "", "")

\* "except Exception" around the parse: KServeInferenceError is an Exception
\* too, so the handler takes whatever the try block raised
InnerHandlerCatches(e) == TRUE

InferenceErrorFor(resp, at) ==
    IF InnerHandlerCatches(RaisedInTry(resp, at))
    THEN RawInferenceError(resp, at)
    ELSE RaisedInTry(resp, at)

\* the status branches: the error a response raises, NoKError if none
StatusError(resp, at) ==
    CASE resp.status = 404 -> KError("KServeModelNotReadyError", at, "", "", "")
      [] resp.status = 429 -> KError("KServeRateLimitError", at, "", "", "")
      [] resp.status >= 400 -> InferenceErrorFor(resp, at)
      [] OTHER -> NoKError

NotRetriedKindsNoRateLimit == {"KServeModelNotReadyError", "KServeInferenceError"}

\* "except (KServeRateLimitError, KServeModelNotReadyError, KServeInferenceError): raise"
NotRetriedKinds ==
    {"KServeRateLimitError", "KServeModelNotReadyError", "KServeInferenceError"}

\* last_exception after the attempt
RecordedException(outcome, at) ==
    CASE outcome.kind = "ConnectError" -> KError("KServeConnectionError", at, "", "", "")
      [] outcome.kind = "TimeoutException" -> KError("KServeTimeoutError", at, "", "", "")
      [] outcome.kind = "Exception" -> KError("KServeError", at, "Unexpected error", "", "")
      [] StatusError(outcome, at) # NoKError -> KError("KServeError", at, "Unexpected error", "", "")
      [] OTHER -> kLastException

Min(a, b) == IF a < b THEN a ELSE b

\* min(retry_backoff_factor ** attempt, max_retry_delay)
BackoffDelay(att) == Min(RETRY_BACKOFF_FACTOR ^ att, MAX_RETRY_DELAY)

AnotherAttemptEarly(att) == att < kMaxRetries - 1

\* "for attempt in range(max_retries + 1)" / "if attempt < self.max_retries"
AnotherAttempt(att) == att < kMaxRetries

\* "raise last_exception" or, when none was recorded, the generic error
GiveUpError == IF kLastException' # NoKError THEN kLastException'
               ELSE KError("KServeError", 0, "Request failed after all retries", "", "")

KStart ==
    /\ kPc = "idle"
    /\ kPc' = "request"
    /\ UNCHANGED <<kMaxRetries, kAttempt, kRequests, kLastException, kDelays, kResult>>
    /\ UNCHANGED notKServe

\* one iteration of the loop, up to its return, raise or sleep
KRequest(outcome) ==
    /\ kPc = "request"
    /\ kRequests' = Append(kRequests, outcome)
    /\ LET at == Len(kRequests) + 1 IN
       CASE outcome.kind = "response" /\ outcome.status = EXPECTED_STATUS ->
              /\ kResult' = KResponse(outcome.status)
              /\ kPc' = "done"
              /\ UNCHANGED <<kLastException, kDelays>>
         [] outcome.kind = "response" /\ StatusError(outcome, at).kind \in NotRetriedKinds ->
              /\ kResult' = StatusError(outcome, at)
              /\ kPc' = "done"
              /\ UNCHANGED <<kLastException, kDelays>>
         [] OTHER ->
              /\ kLastException' = RecordedException(outcome, at)
              /\ IF AnotherAttempt(kAttempt)
                 THEN /\ kDelays' = Append(kDelays, BackoffDelay(kAttempt))
                      /\ kPc' = "sleep"
                      /\ kResult' = kResult
                 ELSE /\ kResult' = GiveUpError
                      /\ kPc' = "done"
                      /\ kDelays' = kDelays
    /\ UNCHANGED <<kMaxRetries, kAttempt>>
    /\ UNCHANGED notKServe

KWakeUp ==
    /\ kPc = "sleep"
    /\ kAttempt' = kAttempt + 1
    /\ kPc' = "request"
    /\ UNCHANGED <<kMaxRetries, kRequests, kLastException, kDelays, kResult>>
    /\ UNCHANGED notKServe

\* the caller has the response or the error; the client takes the next call
KReturns ==
    /\ kPc = "done"
    /\ kPc' = "idle"
    /\ kAttempt' = 0
    /\ kRequests' = <<>>
    /\ kLastException' = NoKError
    /\ kDelays' = <<>>
    /\ kResult' = NoKError
    /\ UNCHANGED kMaxRetries
    /\ UNCHANGED notKServe

(***************************************************************************)
(* Storage backend: AbstractStorage._lock and the FileStorage operations   *)
(* save_image, delete_image, cleanup_expired_images, run by concurrent     *)
(* tasks of one event loop.  A task is suspended only at an await.         *)
(***************************************************************************)
NumTasks == 2        \* tasks using the storage instance concurrently
MaxTime == 1         \* the clock runs from 0 to MaxTime

Tasks == 1..NumTasks

ImageIds == {"i1", "i2"}

\* image bytes: empty, and a PNG
DataInputs == {<<>>, <<"P", "N", "G">>}

TtlInputs == {0}

AbsentImage == [present |-> FALSE, data |-> <<>>, mtime |-> 0]

AbsentMeta == [present |-> FALSE, size |-> 0]

NoArg == [op |-> "none", id |-> "i1", data |-> <<>>, ttl |-> 0]

NoRes == [kind |-> "none", flag |-> FALSE, count |-> 0]

StorageErrorRes == [kind |-> "StorageError", flag |-> FALSE, count |-> 0]

PathRes == [kind |-> "path", flag |-> FALSE, count |-> 0]

BoolRes(b) == [kind |-> "bool", flag |-> b, count |-> 0]

CountRes(n) == [kind |-> "count", flag |-> FALSE, count |-> n]

\* the first position inside "async with self._lock" of each operation
EnterPc(op) ==
    CASE op = "save" -> "save_image"
      [] op = "delete" -> "delete_cs"
      [] OTHER -> "cleanup_cs"

\* the positions inside "async with self._lock"
InCriticalSection(t) == tpc[t] \in {"save_image", "save_meta", "delete_cs", "cleanup_cs"}

LockFreeAlways == TRUE

\* asyncio.Lock.acquire returns at once: not locked and nobody queued
LockFree == ~locked /\ waiters = <<>>

\* "async with self._lock": enter, or queue behind the holder
AcquireOrWait(t, op) ==
    IF LockFree
    THEN /\ locked' = TRUE
         /\ tpc' = [tpc EXCEPT ![t] = EnterPc(op)]
         /\ waiters' = waiters
    ELSE /\ waiters' = Append(waiters, t)
         /\ tpc' = [tpc EXCEPT ![t] = "wait"]
         /\ locked' = locked

\* save_image up to the lock: empty data is refused before the lock is taken
BeginSave(t, id, data) ==
    /\ tpc[t] = "idle"
    /\ IF Len(data) = 0
       THEN /\ tres' = [u \in Tasks |-> IF u = t THEN StorageErrorRes ELSE NoRes]
            /\ UNCHANGED <<locked, waiters, tpc, targ>>
       ELSE /\ tres' = [tres EXCEPT ![t] = NoRes]
            /\ targ' = [targ EXCEPT ![t] = [op |-> "save", id |-> id, data |-> data, ttl |-> 0]]
            /\ AcquireOrWait(t, "save")
    /\ UNCHANGED <<img, meta, now>>
    /\ UNCHANGED notStorage

BeginDelete(t, id) ==
    /\ tpc[t] = "idle"
    /\ targ' = [targ EXCEPT ![t] = [op |-> "delete", id |-> id, data |-> <<>>, ttl |-> 0]]
    /\ tres' = [tres EXCEPT ![t] = NoRes]
    /\ AcquireOrWait(t, "delete")
    /\ UNCHANGED <<img, meta, now>>
    /\ UNCHANGED notStorage

BeginCleanup(t, ttl) ==
    /\ tpc[t] = "idle"
    /\ targ' = [targ EXCEPT ![t] = [op |-> "cleanup", id |-> "i1", data |-> <<>>, ttl |-> ttl]]
    /\ tres' = [tres EXCEPT ![t] = NoRes]
    /\ AcquireOrWait(t, "cleanup")
    /\ UNCHANGED <<img, meta, now>>
    /\ UNCHANGED notStorage

\* the released lock passes to the task that has waited longest
LockGranted(t) ==
    /\ tpc[t] = "wait"
    /\ ~locked
    /\ waiters # <<>>
    /\ Head(waiters) = t
    /\ locked' = TRUE
    /\ waiters' = Tail(waiters)
    /\ tpc' = [tpc EXCEPT ![t] = EnterPc(targ[t].op)]
    /\ UNCHANGED <<targ, tres, img, meta, now>>
    /\ UNCHANGED notStorage

\* the operation of t ends with result r and leaves the "async with";
\* targ holds the arguments of the call in flight only, tres the result of
\* the call that returned last
Leave(t, r) ==
    /\ locked' = FALSE
    /\ tpc' = [tpc EXCEPT ![t] = "idle"]
    /\ tres' = [u \in Tasks |-> IF u = t THEN r ELSE NoRes]
    /\ targ' = [targ EXCEPT ![t] = NoArg]

\* "async with aiofiles.open(image_path, 'wb')": the file is written ("ok"),
\* cannot be opened ("fail"), or is created and the write fails ("partial")
SaveWriteImage(t, outcome) ==
    /\ tpc[t] = "save_image"
    /\ CASE outcome = "ok" ->
              /\ img' = [img EXCEPT ![targ[t].id] =
                            [present |-> TRUE, data |-> targ[t].data, mtime |-> now]]
              /\ tpc' = [tpc EXCEPT ![t] = "save_meta"]
              /\ UNCHANGED <<locked, tres, targ>>
         [] outcome = "partial" ->
              /\ img' = [img EXCEPT ![targ[t].id] =
                            [present |-> TRUE, data |-> <<>>, mtime |-> now]]
              /\ Leave(t, StorageErrorRes)
         [] OTHER ->
              /\ img' = img
              /\ Leave(t, StorageErrorRes)
    /\ UNCHANGED <<waiters, meta, now>>
    /\ UNCHANGED notStorage

\* "async with aiofiles.open(metadata_path, 'w')": written, or OSError
SaveWriteMeta(t, outcome) ==
    /\ tpc[t] = "save_meta"
    /\ IF outcome = "ok"
       THEN /\ meta' = [meta EXCEPT ![targ[t].id] =
                           [present |-> TRUE, size |-> Len(targ[t].data)]]
            /\ Leave(t, PathRes)
       ELSE /\ meta' = meta
            /\ Leave(t, StorageErrorRes)
    /\ UNCHANGED <<waiters, img, now>>
    /\ UNCHANGED notStorage

\* the body of delete_image, which has no await: the image file, then the
\* metadata file, are unlinked if they exist; an unlink may raise OSError
DeleteBody(t, outcome) ==
    /\ tpc[t] = "delete_cs"
    /\ LET id == targ[t].id
           imageFails == outcome = "fail_image" /\ img[id].present
           metaFails == outcome = "fail_meta" /\ meta[id].present
       IN /\ img' = IF imageFails THEN img ELSE [img EXCEPT ![id] = AbsentImage]
          /\ meta' = IF imageFails \/ metaFails THEN meta
                     ELSE [meta EXCEPT ![id] = AbsentMeta]
          /\ Leave(t, IF imageFails \/ metaFails THEN StorageErrorRes
                      ELSE BoolRes(img[id].present \/ meta[id].present))
    /\ UNCHANGED <<waiters, now>>
    /\ UNCHANGED notStorage

\* "stat.st_mtime < cutoff_time"
Expired(id, ttl) == img[id].present /\ img[id].mtime < now - ttl

\* the body of cleanup_expired_images, which has no await: for every
\* expired image the image file and then its metadata file are unlinked;
\* an OSError on one image is logged and the sweep goes on
CleanupBody(t, outcome) ==
    /\ tpc[t] = "cleanup_cs"
    /\ LET ttl == targ[t].ttl
           imageFails(id) == outcome[id] = "fail_image"
           metaFails(id) == outcome[id] = "fail_meta" /\ meta[id].present
           gone == {id \in ImageIds : Expired(id, ttl) /\ ~imageFails(id)}
           counted == {id \in gone : ~metaFails(id)}
       IN /\ img' = [id \in ImageIds |-> IF id \in gone THEN AbsentImage ELSE img[id]]
          /\ meta' = [id \in ImageIds |-> IF id \in counted THEN AbsentMeta ELSE meta[id]]
          /\ Leave(t, CountRes(Cardinality(counted)))
    /\ UNCHANGED <<waiters, now>>
    /\ UNCHANGED notStorage

UnlinkOutcomes == {"ok", "fail_image", "fail_meta"}

\* time passes
Tick ==
    /\ now < MaxTime
    /\ now' = now + 1
    /\ UNCHANGED <<locked, waiters, tpc, targ, tres, img, meta>>
    /\ UNCHANGED notStorage

(***************************************************************************)
(* FileStorage and S3Storage as whole calls, one caller at a time.  A      *)
(* store maps each image id to its image object and its metadata object;   *)
(* every operation is an operator from a store to a store and a result.    *)
(***************************************************************************)
MaxClock == 2        \* the clock of the two backends runs from 0 to MaxClock

\* image bytes: empty, and two PNG files of different sizes
ImageInputs == {<<>>, <<"P", "N", "G", "a">>, <<"P", "N", "G", "b", "b">>}

TtlSeconds == {1}

NoDoc == [image_id |-> "", size |-> 0, created_at |-> 0, format |-> ""]

AbsentObject == [present |-> FALSE, data |-> <<>>, doc |-> NoDoc, mtime |-> 0]

EmptyStore == [png |-> [id \in ImageIds |-> AbsentObject],
               json |-> [id \in ImageIds |-> AbsentObject]]

\* full_metadata: image_id, created_at, size and format are set by save_image
\* after the caller's fields, so the caller cannot override them
FullMetadata(id, data, t) ==
    [image_id |-> id, size |-> Len(data), created_at |-> t, format |-> "png"]

ImageObject(data, t) == [present |-> TRUE, data |-> data, doc |-> NoDoc, mtime |-> t]

MetadataObject(id, data, t, t2) ==
    [present |-> TRUE, data |-> <<>>, doc |-> FullMetadata(id, data, t), mtime |-> t2]

\* results of the storage operations
Result(kind) == [kind |-> kind, data |-> <<>>, flag |-> FALSE, count |-> 0,
                 records |-> {}, path |-> <<>>]

StorageErrorResult == Result("StorageError")

SavedResult(path) == [Result("saved") EXCEPT !.path = path]

BytesResult(data) == [Result("bytes") EXCEPT !.data = data]

NoneResult == Result("None")

BoolResult(b) == [Result("bool") EXCEPT !.flag = b]

CountResult(n) == [Result("count") EXCEPT !.count = n]

ListResult(rs) == [Result("list") EXCEPT !.records = rs]

\* one record of list_images: the stored metadata document, updated with
\* the image object's size and time and with the backend's own fields
ImageRecord(st, id, backend) ==
    [image_id |-> st.json[id].doc.image_id,
     size |-> st.json[id].doc.size,
     created_at |-> st.json[id].doc.created_at,
     format |-> st.json[id].doc.format,
     actual_size |-> Len(st.png[id].data),
     modified |-> st.png[id].mtime,
     backend |-> backend]

\* FileStorage.save_image(data, id, metadata) at time t, its metadata file
\* written at time t2
FileSave(st, id, data, t, t2) ==
    IF Len(data) = 0
    THEN [store |-> st, res |-> StorageErrorResult]
    ELSE [store |-> [png |-> [st.png EXCEPT ![id] = ImageObject(data, t)],
                     json |-> [st.json EXCEPT ![id] = MetadataObject(id, data, t, t2)]],
          res |-> SavedResult(<<"base_path", id, ".png">>)]

FileGetTruncated(st, id) ==
    IF st.png[id].present THEN BytesResult(Tail(st.png[id].data)) ELSE NoneResult

\* FileStorage.get_image(id)
FileGet(st, id) ==
    IF st.png[id].present THEN BytesResult(st.png[id].data) ELSE NoneResult

\* FileStorage.list_images(): every metadata file whose image file exists
FileList(st) ==
    ListResult({ImageRecord(st, id, "file") :
                   id \in {i \in ImageIds : st.json[i].present /\ st.png[i].present}})

FileDeleteAlwaysTrue(st, id) ==
    [store |-> [png |-> [st.png EXCEPT ![id] = AbsentObject],
                json |-> [st.json EXCEPT ![id] = AbsentObject]],
     res |-> BoolResult(TRUE)]

\* FileStorage.delete_image(id): each of the two files is unlinked if it
\* exists, and either makes the result true
FileDelete(st, id) ==
    [store |-> [png |-> [st.png EXCEPT ![id] = AbsentObject],
                json |-> [st.json EXCEPT ![id] = AbsentObject]],
     res |-> BoolResult(st.png[id].present \/ st.json[id].present)]

FileExpiredNotStrict(st, ttl, t) ==
    {id \in ImageIds : st.png[id].present /\ st.png[id].mtime <= t - ttl}

\* the image files with "stat.st_mtime < cutoff_time"
FileExpired(st, ttl, t) ==
    {id \in ImageIds : st.png[id].present /\ st.png[id].mtime < t - ttl}

\* FileStorage.cleanup_expired_images(ttl) at time t
FileCleanup(st, ttl, t) ==
    LET gone == FileExpired(st, ttl, t) IN
    [store |-> [png |-> [id \in ImageIds |-> IF id \in gone THEN AbsentObject ELSE st.png[id]],
                json |-> [id \in ImageIds |-> IF id \in gone THEN AbsentObject ELSE st.json[id]]],
     res |-> CountResult(Cardinality(gone))]

\* S3Storage.save_image: two put_object calls, each object with its own
\* LastModified
S3Save(st, id, data, t, t2) ==
    IF Len(data) = 0
    THEN [store |-> st, res |-> StorageErrorResult]
    ELSE [store |-> [png |-> [st.png EXCEPT ![id] = ImageObject(data, t)],
                     json |-> [st.json EXCEPT ![id] = MetadataObject(id, data, t, t2)]],
          res |-> SavedResult(<<"prefix", id, ".png">>)]

\* S3Storage.get_image: get_object, "NoSuchKey" gives None
S3Get(st, id) ==
    IF st.png[id].present THEN BytesResult(st.png[id].data) ELSE NoneResult

\* S3Storage.list_images: every ".json" object whose image object answers
\* the head_object
S3List(st) ==
    ListResult({ImageRecord(st, id, "s3") :
                   id \in {i \in ImageIds : st.json[i].present /\ st.png[i].present}})

\* S3Storage.delete_image: False when head_object of the image answers 404,
\* otherwise delete_objects of both keys
S3Delete(st, id) ==
    IF ~st.png[id].present
    THEN [store |-> st, res |-> BoolResult(FALSE)]
    ELSE [store |-> [png |-> [st.png EXCEPT ![id] = AbsentObject],
                     json |-> [st.json EXCEPT ![id] = AbsentObject]],
          res |-> BoolResult(TRUE)]

S3CleanupCountsObjects(st, ttl, t) ==
    LET old(o) == o.present /\ o.mtime < t - ttl IN
    [store |-> [png |-> [id \in ImageIds |-> IF old(st.png[id]) THEN AbsentObject ELSE st.png[id]],
                json |-> [id \in ImageIds |-> IF old(st.json[id]) THEN AbsentObject ELSE st.json[id]]],
     res |-> CountResult(Cardinality({id \in ImageIds : old(st.png[id])})
                         + Cardinality({id \in ImageIds : old(st.json[id])}))]

\* S3Storage.cleanup_expired_images: every object under the prefix whose
\* LastModified is before the cutoff is deleted; the ".png" keys are counted
S3Cleanup(st, ttl, t) ==
    LET old(o) == o.present /\ o.mtime < t - ttl IN
    [store |-> [png |-> [id \in ImageIds |-> IF old(st.png[id]) THEN AbsentObject ELSE st.png[id]],
                json |-> [id \in ImageIds |-> IF old(st.json[id]) THEN AbsentObject ELSE st.json[id]]],
     res |-> CountResult(Cardinality({id \in ImageIds : old(st.png[id])}))]

NoCall == [op |-> "none", id |-> "i1", data |-> <<>>, ttl |-> 0,
           file |-> Result("none"), s3 |-> Result("none")]

Call(op, id, data, ttl, fres, sres) ==
    [op |-> op, id |-> id, data |-> data, ttl |-> ttl, file |-> fres, s3 |-> sres]

\* save_image on both backends; the clock may advance by lag between the
\* write of the image and the write of its metadata
CallSave(id, data, lag) ==
    /\ clock + lag <= MaxClock
    /\ LET f == FileSave(fileStore, id, data, clock, clock + lag)
           s == S3Save(s3Store, id, data, clock, clock + lag)
       IN /\ fileStore' = f.store
          /\ s3Store' = s.store
          /\ clock' = IF Len(data) = 0 THEN clock ELSE clock + lag
          /\ lastCall' = Call("save", id, data, 0, f.res, s.res)
    /\ UNCHANGED notBackends

CallGet(id) ==
    /\ lastCall' = Call("get", id, <<>>, 0, FileGet(fileStore, id), S3Get(s3Store, id))
    /\ UNCHANGED <<fileStore, s3Store, clock>>
    /\ UNCHANGED notBackends

CallList ==
    /\ lastCall' = Call("list", "i1", <<>>, 0, FileList(fileStore), S3List(s3Store))
    /\ UNCHANGED <<fileStore, s3Store, clock>>
    /\ UNCHANGED notBackends

CallDelete(id) ==
    /\ LET f == FileDelete(fileStore, id)
           s == S3Delete(s3Store, id)
       IN /\ fileStore' = f.store
          /\ s3Store' = s.store
          /\ lastCall' = Call("delete", id, <<>>, 0, f.res, s.res)
    /\ UNCHANGED clock
    /\ UNCHANGED notBackends

CallCleanup(ttl) ==
    /\ LET f == FileCleanup(fileStore, ttl, clock)
           s == S3Cleanup(s3Store, ttl, clock)
       IN /\ fileStore' = f.store
          /\ s3Store' = s.store
          /\ lastCall' = Call("cleanup", "i1", <<>>, ttl, f.res, s.res)
    /\ UNCHANGED clock
    /\ UNCHANGED notBackends

\* time passes between two calls
ClockTick ==
    /\ clock < MaxClock
    /\ clock' = clock + 1
    /\ UNCHANGED <<fileStore, s3Store, lastCall>>
    /\ UNCHANGED notBackends

(***************************************************************************)
(* Image server: MCPImageServer.generate_image and the route               *)
(* GET /images/{image_id}, over the server's FileStorage.  A URL is its    *)
(* base and the path below the base; the route's image_id is that path.    *)
(***************************************************************************)
\* settings.get_storage_url(), which is also the base_url of the FileStorage
STORAGE_URL == "http://host:port/images"

\* image_path = base_path / f"{image_id}.png"; url = f"{base_url}/{image_id}.png"
PngName(id) == id \o ".png"

\* the ids a request path can carry: generated ids, and such ids followed
\* by ".png"
RouteIds == ImageIds \cup {PngName(id) : id \in ImageIds}

EmptyServerStore == [png |-> [id \in RouteIds |-> AbsentObject],
                     json |-> [id \in RouteIds |-> AbsentObject]]

Url(base, path) == [base |-> base, path |-> path]

NoUrl == Url("", "")

\* FileStorage.get_image_url(id): None when the image file does not exist
FileGetImageUrl(st, id) ==
    IF st.png[id].present THEN Url(STORAGE_URL, PngName(id)) ELSE NoUrl

\* "if not image_url: image_url = f'{settings.get_storage_url()}/{request_id}'"
ImageUrlOrFallback(st, id) ==
    IF FileGetImageUrl(st, id) # NoUrl THEN FileGetImageUrl(st, id)
    ELSE Url(STORAGE_URL, id)

GenResult(kind, url, id, produced) ==
    [kind |-> kind, url |-> url, image_id |-> id, produced |-> produced,
     file_size |-> Len(produced)]

NoGenResult == GenResult("none", NoUrl, "", <<>>)

\* what the caller, the inference backend and the storage do during one
\* generate_image: the parameters pass _validate_parameters or not; the
\* KServe client returns image bytes, raises a KServeError or raises
\* something else (there are no bytes then); save_image and get_image_url
\* return or raise
GenerateOutcomes ==
    {o \in [params : {"ok", "bad"},
            kserve : {"ok", "KServeError", "Exception"},
            data : ImageInputs,
            save : {"ok", "fail"},
            url : {"ok", "fail"}] : o.kserve # "ok" => o.data = <<>>}

\* the stages of generate_image, in the order of the code
GenStages == <<"validate", "generate", "validate_image", "store", "resolve_url">>

StageErrorAllGeneration(o, stage) ==
    CASE stage = "validate" /\ o.params = "bad" -> "ImageGenerationError"
      [] stage = "generate" /\ o.kserve # "ok" -> "ImageGenerationError"
      [] stage = "validate_image" /\ Len(o.data) = 0 -> "ImageGenerationError"
      [] stage = "store" /\ o.save = "fail" -> "ImageGenerationError"
      [] stage = "resolve_url" /\ o.url = "fail" -> "ImageGenerationError"
      [] OTHER -> ""

\* what generate_image raises when the stage fails, "" when the stage passes:
\* _validate_parameters raises ValidationError, which is re-raised; a
\* KServeError and any other exception of the client become
\* ImageGenerationError; validate_image refuses empty data; whatever
\* save_image or get_image_url raise becomes StorageError
StageError(o, stage) ==
    CASE stage = "validate" /\ o.params = "bad" -> "ValidationError"
      [] stage = "generate" /\ o.kserve # "ok" -> "ImageGenerationError"
      [] stage = "validate_image" /\ Len(o.data) = 0 -> "ValidationError"
      [] stage = "store" /\ o.save = "fail" -> "StorageError"
      [] stage = "resolve_url" /\ o.url = "fail" -> "StorageError"
      [] OTHER -> ""

\* the first stage that raises, 0 when none does
FailingStage(o) ==
    IF \A i \in 1..Len(GenStages) : StageError(o, GenStages[i]) = "" THEN 0
    ELSE CHOOSE i \in 1..Len(GenStages) :
            /\ StageError(o, GenStages[i]) # ""
            /\ \A j \in 1..(i - 1) : StageError(o, GenStages[j]) = ""

\* the stages run: all of them, or those up to the one that raises
StagesRun(o) ==
    IF FailingStage(o) = 0 THEN GenStages ELSE SubSeq(GenStages, 1, FailingStage(o))

\* the effect of generate_image with request_id = id
Generate(id, o) ==
    LET f == FailingStage(o)
        saved == FileSave(srvStore, id, o.data, 0, 0)
    IN /\ genStages' = StagesRun(o)
       /\ srvStore' = IF f = 0 \/ f > 4 THEN saved.store ELSE srvStore
       /\ generated' =
             IF f = 0
             THEN GenResult("ok", ImageUrlOrFallback(saved.store, id), id, o.data)
             ELSE GenResult(StageError(o, GenStages[f]), NoUrl, id,
                            IF f > 2 THEN o.data ELSE <<>>)

\* generate_image called as a tool function
GenerateImage(id, outcome) ==
    /\ Generate(id, outcome)
    /\ UNCHANGED <<httpResp, toolResp>>
    /\ UNCHANGED notImageServer

ToolResponse(status, result, errType) ==
    [status |-> status, result |-> result, error |-> errType]

NoToolResponse == ToolResponse(0, NoGenResult, "")

EndpointCatchesValidationOnly(kind) == kind \in {"ValidationError", "pydantic.ValidationError"}

\* the handler of the endpoint is "except Exception": it takes whatever
\* GenerateImageParams(**params) or generate_image raise
EndpointCatches(kind) == TRUE

\* the answer of the endpoint when its try block ends with outcome kind:
\* {result, error: null}, {result: null, error: {type, message}}, or the
\* framework's 500 for an exception the handler does not take
EndpointAnswer(kind, result) ==
    CASE kind = "ok" -> ToolResponse(200, result, "")
      [] EndpointCatches(kind) -> ToolResponse(200, NoGenResult, kind)
      [] OTHER -> ToolResponse(500, NoGenResult, "")

\* POST /mcp/v1/tools/generate_image with a body that GenerateImageParams
\* accepts: generate_image runs
McpGenerateImage(id, outcome) ==
    /\ Generate(id, outcome)
    /\ toolResp' = EndpointAnswer(generated'.kind, generated')
    /\ UNCHANGED httpResp
    /\ UNCHANGED notImageServer

\* the same with a body that GenerateImageParams refuses
McpGenerateImageMalformed ==
    /\ toolResp' = EndpointAnswer("pydantic.ValidationError", NoGenResult)
    /\ UNCHANGED <<srvStore, generated, genStages, httpResp>>
    /\ UNCHANGED notImageServer

\* what storage.get_image does for the route
StorageAnswers == {"stored", "ImageNotFoundError", "StorageError"}

HttpResponse(status, error, id, body, answer) ==
    [status |-> status, error |-> error, image_id |-> id, body |-> body,
     etag |-> IF status = 200 THEN id ELSE "", storage |-> answer]

NoHttpResponse == HttpResponse(0, "", "", <<>>, "none")

\* what the try block of the route raises, "" if it returns the response
RaisedInRoute(answer) ==
    CASE answer = "None" -> "HTTPException(404)"
      [] answer = "bytes" -> ""
      [] OTHER -> answer

\* the handlers of the route: "except ImageNotFoundError" gives 404 and
\* "except Exception", which also takes the HTTPException raised in the
\* try block, gives 500
Handled(id, raised, answer) ==
    CASE raised = "ImageNotFoundError" ->
              HttpResponse(404, "image_not_found", id, <<>>, answer)
      [] OTHER -> HttpResponse(500, "storage_error", id, <<>>, answer)

\* GET /images/{id}: env is what the storage call does
GetImageRoute(id, env) ==
    /\ LET got == FileGet(srvStore, id)
           answer == IF env # "stored" THEN env
                     ELSE IF got.kind = "bytes" THEN "bytes" ELSE "None"
           raised == RaisedInRoute(answer)
       IN httpResp' = IF raised = ""
                      THEN HttpResponse(200, "", id, got.data, answer)
                      ELSE Handled(id, raised, answer)
    /\ UNCHANGED <<srvStore, generated, genStages, toolResp>>
    /\ UNCHANGED notImageServer

(***************************************************************************)
(* Application lifecycle: startup(), shutdown() and the accessors of       *)
(* api/app.py over the module-level app_state.                             *)
(***************************************************************************)
Slots == {"settings", "kserve_client", "storage", "mcp_server", "cleanup_task"}

\* app_state as the module defines it: every slot None
EmptyAppState == [k \in Slots |-> FALSE]

\* the statements of startup() that fill a slot, in order
StartupSteps == <<"settings", "kserve_client", "storage", "mcp_server", "cleanup_task">>

StepIndex(pc) == CHOOSE i \in 1..Len(StartupSteps) : StartupSteps[i] = pc

\* what follows the step that fills slot pc: the next one, then the health
\* check
AfterStartupStep(pc) ==
    IF StepIndex(pc) < Len(StartupSteps) THEN StartupSteps[StepIndex(pc) + 1]
    ELSE "health"

\* startup() is called; the record of an earlier shutdown() is dropped
StartupBegin ==
    /\ startupPc \in {"idle", "failed"}
    /\ shutdownPc \in {"idle", "done"}
    /\ startupPc' = StartupSteps[1]
    /\ shutdownPc' = "idle"
    /\ shutdownLog' = <<>>
    /\ UNCHANGED <<app_state, shutdownBlock, lastAccess, kserveCloses>>
    /\ UNCHANGED notApp

\* one step of startup(): the object is created and stored in its slot, or
\* its creation raises and "except Exception: ... raise" leaves startup
StartupStep(ok) ==
    /\ startupPc \in Slots
    /\ IF ok
       THEN /\ app_state' = [app_state EXCEPT ![startupPc] = TRUE]
            /\ startupPc' = AfterStartupStep(startupPc)
       ELSE /\ app_state' = app_state
            /\ startupPc' = "failed"
    /\ UNCHANGED <<shutdownPc, shutdownBlock, shutdownLog, lastAccess, kserveCloses>>
    /\ UNCHANGED notApp

\* mcp_server.health_check() catches what its checks raise and only logs a
\* warning when the service is not healthy: startup completes
StartupHealth ==
    /\ startupPc = "health"
    /\ startupPc' = "complete"
    /\ UNCHANGED <<app_state, shutdownPc, shutdownBlock, shutdownLog, lastAccess, kserveCloses>>
    /\ UNCHANGED notApp

Accessors == {"settings", "kserve_client", "storage", "mcp_server"}

\* get_<slot>(): "if not app_state.get(slot): raise RuntimeError(...)"
AccessorResult(st, slot) ==
    IF ~st[slot] THEN "RuntimeError: Application not initialized" ELSE "value"

NoAccess == [slot |-> "", result |-> "", startup |-> ""]

Access(slot) ==
    /\ lastAccess' = [slot |-> slot, result |-> AccessorResult(app_state, slot),
                      startup |-> startupPc]
    /\ UNCHANGED <<app_state, startupPc, shutdownPc, shutdownBlock, shutdownLog, kserveCloses>>
    /\ UNCHANGED notApp

\* the three blocks of shutdown(), in the order of the code: the slot each
\* tests and the call it makes
ShutdownSteps ==
    <<[slot |-> "cleanup_task", call |-> "cleanup_task.stop"],
      [slot |-> "mcp_server", call |-> "mcp_server.close"],
      [slot |-> "kserve_client", call |-> "kserve_client.close"]>>

\* shutdown() is called
ShutdownBegin ==
    /\ startupPc \in {"idle", "failed", "complete"}
    /\ shutdownPc \in {"idle", "done"}
    /\ shutdownPc' = "running"
    /\ shutdownBlock' = 1
    /\ shutdownLog' = <<>>
    /\ kserveCloses' = 0
    /\ UNCHANGED <<app_state, startupPc, lastAccess>>
    /\ UNCHANGED notApp

ShutdownAfterBlockRaises(block, failed) ==
    IF failed THEN "raised"
    ELSE IF block < Len(ShutdownSteps) THEN "running" ELSE "done"

\* where shutdown() is after a block: "except Exception" logs a warning and
\* the next block follows; after the last one shutdown() returns
ShutdownAfterBlock(block, failed) ==
    IF block < Len(ShutdownSteps) THEN "running" ELSE "done"

\* the calls whose body invokes close() of the KServe client: the block of
\* shutdown() that closes the client, and MCPImageServer.close(), which
\* holds the same client object and closes it in its own try block
ClosesKServeClient(call) == call \in {"mcp_server.close", "kserve_client.close"}

\* one block of shutdown(): skipped when its slot is empty, otherwise the
\* call is made and returns or raises an Exception
ShutdownStep(failed) ==
    /\ shutdownPc = "running"
    /\ LET b == ShutdownSteps[shutdownBlock] IN
       IF app_state[b.slot]
       THEN /\ shutdownLog' = Append(shutdownLog, [call |-> b.call, failed |-> failed])
            /\ shutdownPc' = ShutdownAfterBlock(shutdownBlock, failed)
            /\ kserveCloses' = IF ClosesKServeClient(b.call) THEN kserveCloses + 1
                               ELSE kserveCloses
       ELSE /\ ~failed
            /\ shutdownLog' = shutdownLog
            /\ shutdownPc' = ShutdownAfterBlock(shutdownBlock, FALSE)
            /\ kserveCloses' = kserveCloses
    /\ shutdownBlock' = IF shutdownPc' = "running" THEN shutdownBlock + 1 ELSE 0
    /\ UNCHANGED <<app_state, startupPc, lastAccess>>
    /\ UNCHANGED notApp

(***************************************************************************)
(* CleanupTask: start(), stop() and the task running _cleanup_loop().      *)
(* The loop task is suspended only where the code awaits: in the two       *)
(* asyncio.sleep calls and, inside the sweep, in "async with self._lock"   *)
(* of the storage backend when a request holds that lock; the body of the  *)
(* sweep of both backends has no await.  task.cancel() makes the next      *)
(* resumption of the task raise CancelledError at the await it is in.      *)
(***************************************************************************)
\* Settings.image_cleanup_interval
DEFAULT_CLEANUP_INTERVAL == 300

\* intervals the task is constructed with: below, at and above 60 seconds
CleanupIntervals == {30, 60, DEFAULT_CLEANUP_INTERVAL}

\* "await asyncio.sleep(min(self.interval, 60))"
RetryWait(i) == Min(i, 60)

PcAfterSweepDies(ok) == IF ok THEN "sleeping" ELSE "finished"

\* where the loop goes when run_cleanup() returns (ok) or raises an
\* Exception: the sleep of the try block, or the sleep of the handler
PcAfterSweep(ok) == IF ok THEN "sleeping" ELSE "errsleep"

\* the positions in which the loop task is suspended in an await
Suspended == {"lock_wait", "sleeping", "errsleep"}

\* a loop task that has not ended
Live(pc) == pc \notin {"none", "finished"}

StartIsNoOpNever(isRunning) == FALSE

\* "if self.running: ... return"
StartIsNoOp(isRunning) == isRunning

\* "if not self.running: ... return"
StopIsNoOp(isRunning) == ~isRunning

\* start().  It runs between the steps of the loop task, never inside the
\* body of a sweep.  When a stop() is suspended in "await self.task", the
\* loop task that stop() awaits is kept in oldPc beside the new one.  At most
\* one loop task that no stop() awaits is explored: start() is not called
\* while such a task is alive and self.running is False.
CleanupStart ==
    /\ loopPc # "sweeping"
    /\ IF StartIsNoOp(running)
       THEN /\ cleanupCall' = "start_noop"
            /\ UNCHANGED <<running, loopPc, cancelRequested, failedBefore, lastSweep,
                           taskSet, oldPc>>
       ELSE /\ ~Live(loopPc) \/ stopPc = "awaiting" \/ running
            /\ cleanupCall' = "start"
            /\ running' = TRUE
            /\ taskSet' = TRUE
            /\ oldPc' = IF stopPc = "awaiting" /\ oldPc = "none" THEN loopPc ELSE oldPc
            /\ loopPc' = "created"
            /\ cancelRequested' = FALSE
            /\ failedBefore' = FALSE
            /\ lastSweep' = "none"
    /\ UNCHANGED <<interval, stopPc, sleepFor, storageLockHeld>>
    /\ UNCHANGED notCleanup

\* "while self.running:" and, when it holds, the call of run_cleanup(),
\* which reaches "async with self._lock" of the storage backend
EnterIteration ==
    /\ IF ~running THEN loopPc' = "finished" /\ lastSweep' = lastSweep
       ELSE /\ loopPc' = IF storageLockHeld THEN "lock_wait" ELSE "sweeping"
            /\ lastSweep' = "started"
    /\ sleepFor' = 0

\* the loop task runs for the first time
LoopStart ==
    /\ loopPc = "created"
    /\ ~cancelRequested
    /\ EnterIteration
    /\ UNCHANGED <<interval, running, cancelRequested, stopPc, storageLockHeld, failedBefore>>
    /\ UNCHANGED <<taskSet, oldPc, cleanupCall>>
    /\ UNCHANGED notCleanup

\* the storage lock is released to the waiting sweep
SweepLockGranted ==
    /\ loopPc = "lock_wait"
    /\ ~cancelRequested
    /\ ~storageLockHeld
    /\ loopPc' = "sweeping"
    /\ UNCHANGED <<interval, running, cancelRequested, stopPc, sleepFor, storageLockHeld,
                   lastSweep, failedBefore>>
    /\ UNCHANGED <<taskSet, oldPc, cleanupCall>>
    /\ UNCHANGED notCleanup

\* the body of the sweep, which has no await, returns a count or raises
\* StorageError; the loop goes to sleep
SweepFinish(ok) ==
    /\ loopPc = "sweeping"
    /\ loopPc' = PcAfterSweep(ok)
    /\ lastSweep' = IF ok THEN "completed" ELSE "failed"
    /\ failedBefore' = (failedBefore \/ ~ok)
    /\ sleepFor' = IF loopPc' = "finished" THEN 0
                   ELSE IF ok THEN interval ELSE RetryWait(interval)
    /\ UNCHANGED <<interval, running, cancelRequested, stopPc, storageLockHeld>>
    /\ UNCHANGED <<taskSet, oldPc, cleanupCall>>
    /\ UNCHANGED notCleanup

\* asyncio.sleep returns and the loop tests self.running again
SleepReturns ==
    /\ loopPc \in {"sleeping", "errsleep"}
    /\ ~cancelRequested
    /\ EnterIteration
    /\ UNCHANGED <<interval, running, cancelRequested, stopPc, storageLockHeld, failedBefore>>
    /\ UNCHANGED <<taskSet, oldPc, cleanupCall>>
    /\ UNCHANGED notCleanup

\* the cancelled task is resumed: CancelledError is raised at its await.
\* In the try block "except asyncio.CancelledError: break" takes it, in the
\* handler's sleep and before the first step it leaves the task; a sweep
\* waiting for the lock is given up
CancelDelivered ==
    /\ cancelRequested
    /\ loopPc \in Suspended \cup {"created"}
    /\ loopPc' = "finished"
    /\ cancelRequested' = FALSE
    /\ lastSweep' = IF loopPc = "lock_wait" THEN "abandoned" ELSE lastSweep
    /\ sleepFor' = 0
    /\ UNCHANGED <<interval, running, stopPc, storageLockHeld, failedBefore>>
    /\ UNCHANGED <<taskSet, oldPc, cleanupCall>>
    /\ UNCHANGED notCleanup

\* the loop task that a suspended stop() awaits is resumed after its
\* cancellation and ends
OldCancelDelivered ==
    /\ Live(oldPc)
    /\ oldPc' = "finished"
    /\ UNCHANGED <<interval, running, loopPc, cancelRequested, stopPc, sleepFor,
                   storageLockHeld, lastSweep, failedBefore, taskSet, cleanupCall>>
    /\ UNCHANGED notCleanup

\* stop() up to "await self.task"; it cannot run while the loop task is in
\* the body of a sweep, which does not yield.  With self.task None there is
\* nothing to cancel or await and stop() returns at once.
StopBegin ==
    /\ stopPc = "idle"
    /\ loopPc # "sweeping"
    /\ IF StopIsNoOp(running)
       THEN /\ cleanupCall' = "stop_noop"
            /\ UNCHANGED <<running, cancelRequested, stopPc>>
       ELSE /\ cleanupCall' = "stop"
            /\ running' = FALSE
            /\ cancelRequested' = (taskSet \/ cancelRequested)
            /\ stopPc' = IF taskSet THEN "awaiting" ELSE "idle"
    /\ UNCHANGED <<interval, loopPc, sleepFor, storageLockHeld, lastSweep, failedBefore,
                   taskSet, oldPc>>
    /\ UNCHANGED notCleanup

\* "await self.task" returns or raises CancelledError; self.task = None
StopEnd ==
    /\ stopPc = "awaiting"
    /\ IF oldPc # "none"
       THEN oldPc = "finished" /\ oldPc' = "none" /\ loopPc' = loopPc
       ELSE loopPc = "finished" /\ loopPc' = "none" /\ oldPc' = oldPc
    /\ stopPc' = "idle"
    /\ taskSet' = FALSE
    /\ UNCHANGED <<interval, running, cancelRequested, sleepFor, storageLockHeld,
                   lastSweep, failedBefore, cleanupCall>>
    /\ UNCHANGED notCleanup

\* a request (save_image, delete_image) takes the lock of the storage
\* backend; asyncio.Lock does not let it pass a waiting sweep
RequestBegin ==
    /\ ~storageLockHeld
    /\ loopPc \notin {"sweeping", "lock_wait"}
    /\ storageLockHeld' = TRUE
    /\ UNCHANGED <<interval, running, loopPc, cancelRequested, stopPc, sleepFor,
                   lastSweep, failedBefore>>
    /\ UNCHANGED <<taskSet, oldPc, cleanupCall>>
    /\ UNCHANGED notCleanup

RequestEnd ==
    /\ storageLockHeld
    /\ storageLockHeld' = FALSE
    /\ UNCHANGED <<interval, running, loopPc, cancelRequested, stopPc, sleepFor,
                   lastSweep, failedBefore>>
    /\ UNCHANGED <<taskSet, oldPc, cleanupCall>>
    /\ UNCHANGED notCleanup

(***************************************************************************)
(* LiteLLMService.get_completion                                           *)
(* (chatbot/backend/app/services/litellm_service.py)                       *)
(*                                                                         *)
(* One request: a completion call; if the response carries tool calls,     *)
(* each is executed and get_completion calls itself with the history.      *)
(* The steps are the awaits: acompletion and each mcp_service.call_tool.   *)
(* The message list is left out; the control flow and the value returned   *)
(* or raised are kept.  The code counts nothing: compRounds is a record of *)
(* the calls made, which stops counting at MaxRounds while the request     *)
(* goes on as before.                                                      *)
(***************************************************************************)
\* the rounds that are counted
MaxRounds == 3

\* the most tool calls one response carries
MaxToolCalls == 2

\* what the message of a failure contains, as the handler looks at it:
\* "api_key" or "authentication"; else "rate"; else "overloaded" or "timeout";
\* else none of these
FailureClasses == {"api_key", "rate", "overloaded", "other"}

\* the error the handler raises for a failure of that class
WrappedError(class) ==
    IF class = "api_key" THEN "Invalid or missing API key"
    ELSE IF class = "rate" THEN "Rate limit exceeded. Please try again later."
    ELSE IF class = "overloaded"
         THEN "API is currently overloaded. Please try again in a few moments."
    ELSE "LLM API error"

\* the class of the message of such an error when the handler of the calling
\* get_completion looks at it in turn: "Invalid or missing API key" holds
\* neither "api_key" nor "authentication"
ClassOfWrapped(err) ==
    IF err = "Rate limit exceeded. Please try again later." THEN "rate"
    ELSE IF err = "API is currently overloaded. Please try again in a few moments."
         THEN "overloaded"
    ELSE "other"

\* what the request raises for a failure of that class in its round-th
\* completion call: every enclosing get_completion wraps the error again
RaisedError(class, round) ==
    IF round = 1 THEN WrappedError(class)
    ELSE WrappedError(ClassOfWrapped(WrappedError(class)))

CompletionResult(kind, value) == [kind |-> kind, value |-> value]

NoCompletionResult == CompletionResult("none", <<>>)

NOT_AVAILABLE == "LiteLLM service is not available. Please configure an API key."

\* result_text of the outermost call, as the lines joined by "\n": the text
\* of each turn that had one, and "No response generated" for a last turn
\* without text
RECURSIVE JoinTurns(_)
JoinTurns(texts) ==
    IF Len(texts) = 1
    THEN (IF Head(texts) THEN <<"text">> ELSE <<"No response generated">>)
    ELSE (IF Head(texts) THEN <<"text">> ELSE <<>>) \o JoinTurns(Tail(texts))

\* the turns recorded: the last entry stands for every turn from MaxRounds on
RecordTurn(texts, text) ==
    IF Len(texts) < MaxRounds THEN Append(texts, text)
    ELSE [texts EXCEPT ![MaxRounds] = text]

CountRound(rounds) == IF rounds < MaxRounds THEN rounds + 1 ELSE rounds

ContinuesAfterToolsCapped(rounds) == rounds < MaxRounds

\* "continuation = await self.get_completion("", user_id, messages)": after
\* the tool calls of a response, whatever the number of rounds so far
ContinuesAfterTools(rounds) == TRUE

CompletionEnded == compPc \in {"idle", "returned", "raised"}

\* get_completion(message, user_id, conversation_history) is called
GetCompletion(available, withTools) ==
    /\ CompletionEnded
    /\ compTools' = withTools
    /\ compCalls' = 0
    /\ compTexts' = <<>>
    /\ IF available
       THEN /\ compPc' = "completing"
            /\ compRounds' = 1
            /\ compResult' = NoCompletionResult
       ELSE /\ compPc' = "raised"
            /\ compRounds' = 0
            /\ compResult' = CompletionResult("raised", <<NOT_AVAILABLE>>)
    /\ UNCHANGED notCompletion

\* acompletion returns a response with or without text and with n tool calls;
\* tool calls come only when tools were offered
CompletionReturns(text, n) ==
    /\ compPc = "completing"
    /\ n > 0 => compTools
    /\ compTexts' = RecordTurn(compTexts, text)
    /\ compCalls' = n
    /\ IF n = 0
       THEN /\ compPc' = "returned"
            /\ compResult' = CompletionResult("returned", JoinTurns(compTexts'))
       ELSE /\ compPc' = "executing"
            /\ compResult' = compResult
    /\ UNCHANGED <<compTools, compRounds>>
    /\ UNCHANGED notCompletion

\* acompletion raises
CompletionRaises(class) ==
    /\ compPc = "completing"
    /\ compPc' = "raised"
    /\ compResult' = CompletionResult("raised", <<RaisedError(class, compRounds)>>)
    /\ UNCHANGED <<compTools, compRounds, compCalls, compTexts>>
    /\ UNCHANGED notCompletion

\* one iteration of "for tool_call in message_content.tool_calls": json.loads
\* and mcp_service.call_tool return ("ok") or one of them raises; after the
\* last one, the continuation
ExecuteToolCall(outcome) ==
    /\ compPc = "executing"
    /\ IF outcome = "ok"
       THEN /\ compCalls' = compCalls - 1
            /\ IF compCalls > 1
               THEN UNCHANGED <<compPc, compRounds, compResult>>
               ELSE IF ContinuesAfterTools(compRounds)
               THEN /\ compPc' = "completing"
                    /\ compRounds' = CountRound(compRounds)
                    /\ compResult' = compResult
               ELSE /\ compPc' = "returned"
                    /\ compRounds' = compRounds
                    /\ compResult' = CompletionResult("returned", JoinTurns(compTexts))
       ELSE /\ compPc' = "raised"
            /\ compResult' = CompletionResult("raised", <<RaisedError(outcome, compRounds)>>)
            /\ UNCHANGED <<compRounds, compCalls>>
    /\ UNCHANGED <<compTools, compTexts>>
    /\ UNCHANGED notCompletion

(***************************************************************************)
(* The tool-call deltas of LiteLLMService.get_streaming_completion         *)
(* (chatbot/backend/app/services/litellm_service.py)                       *)
(*                                                                         *)
(* The body of "for tc_delta in delta.tool_calls", one delta at a time.    *)
(* A delta is its id (NoId when it has none) and its fragment of the       *)
(* arguments ("" when it has none); the name, stored once when the entry   *)
(* is made, is left out.                                                   *)
(***************************************************************************)
\* the most deltas one stream carries
MaxDeltas == 4

NoId == "None"

ToolCallIds == {"call_1", "call_2"}

Fragments == {"", "x", "y"}

Delta(id, arguments) == [id |-> id, arguments |-> arguments]

\* the keys of tool_calls
CallKeys(calls) == {calls[i].id : i \in 1..Len(calls)}

\* "tool_calls[tool_id]"
CallAt(calls, id) == CHOOSE i \in 1..Len(calls) : calls[i].id = id

\* current_tool_call after a delta: assigned only where an entry is made
CurrentAfter(calls, current, id) ==
    LET tool_id == IF id # NoId THEN id ELSE current
    IN  IF tool_id \notin CallKeys(calls) THEN tool_id ELSE current

\* a new stream: "tool_calls = {}", "current_tool_call = None"
BeginToolStream ==
    /\ deltas' = <<>>
    /\ tool_calls' = <<>>
    /\ current_tool_call' = NoId
    /\ UNCHANGED notDeltas

\* the body of the loop for one tc_delta
ConsumeDelta(id, arguments) ==
    /\ Len(deltas) < MaxDeltas
    /\ deltas' = Append(deltas, Delta(id, arguments))
    /\ LET tool_id == IF id # NoId THEN id ELSE current_tool_call
           made == IF tool_id \notin CallKeys(tool_calls)
                   THEN Append(tool_calls, Delta(tool_id, <<>>))
                   ELSE tool_calls
           at == CallAt(made, tool_id)
       IN  /\ tool_calls' =
                 IF arguments # ""
                 THEN [made EXCEPT ![at].arguments = Append(@, arguments)]
                 ELSE made
           /\ current_tool_call' = CurrentAfter(tool_calls, current_tool_call, id)
    /\ UNCHANGED notDeltas

(***************************************************************************)
(* BackgroundTaskManager (mcp-server/src/api/background.py)                *)
(*                                                                         *)
(* start_all awaits task.start() of each task in turn; stop_all gathers    *)
(* _stop_task of each, which the event loop begins in the order of the     *)
(* dict.  A step is one task's start() or stop(), which returns or raises  *)
(* an Exception.  Tasks are added while no call is in progress.            *)
(***************************************************************************)
ManagedTasks == {"cleanup", "health_check", "failing_task"}

\* position of a name in a sequence of names, 0 when it is not there
RECURSIVE IndexOf(_, _)
IndexOf(names, name) ==
    IF names = <<>> THEN 0
    ELSE IF names[Len(names)] = name THEN Len(names)
    ELSE IndexOf(SubSeq(names, 1, Len(names) - 1), name)

PropagatesFailure(fails) == fails

\* "except Exception as e: logger.error(...)" around task.start() and
\* task.stop(): what they raise does not leave the loop
Propagates(fails) == FALSE

\* add_task(name, task): a name already there keeps its place
AddTask(name) ==
    /\ mgrPc = "idle"
    /\ mgrTasks' = IF IndexOf(mgrTasks, name) > 0 THEN mgrTasks
                   ELSE Append(mgrTasks, name)
    /\ UNCHANGED <<mgrRunning, mgrPc, mgrIndex, mgrInvoked, mgrFailed, mgrResult>>
    /\ UNCHANGED notManager

\* start_all() / stop_all() up to the first task: they return at once when
\* the manager is (respectively is not) running, or has no task
BeginAll(call) ==
    /\ mgrPc = "idle"
    /\ mgrIndex' = 0
    /\ mgrInvoked' = <<>>
    /\ mgrFailed' = {}
    /\ IF mgrRunning = (call = "starting")
       THEN /\ mgrResult' = "skipped"
            /\ UNCHANGED <<mgrRunning, mgrPc>>
       ELSE /\ mgrRunning' = (call = "starting")
            /\ mgrPc' = IF mgrTasks = <<>> THEN "idle" ELSE call
            /\ mgrResult' = IF mgrTasks = <<>> THEN "returned" ELSE "none"
    /\ UNCHANGED mgrTasks
    /\ UNCHANGED notManager

StartAll == BeginAll("starting")

StopAll == BeginAll("stopping")

\* the next task's start() or stop() is invoked and returns or raises;
\* after the last one the call returns
InvokeNext(call, fails) ==
    /\ mgrPc = call
    /\ mgrIndex < Len(mgrTasks)
    /\ LET name == mgrTasks[mgrIndex + 1]
       IN  /\ mgrInvoked' = Append(mgrInvoked, name)
           /\ mgrFailed' = IF fails THEN mgrFailed \cup {name} ELSE mgrFailed
    /\ mgrIndex' = mgrIndex + 1
    /\ IF Propagates(fails)
       THEN mgrPc' = "idle" /\ mgrResult' = "raised"
       ELSE IF mgrIndex + 1 = Len(mgrTasks)
       THEN mgrPc' = "idle" /\ mgrResult' = "returned"
       ELSE UNCHANGED <<mgrPc, mgrResult>>
    /\ UNCHANGED <<mgrTasks, mgrRunning>>
    /\ UNCHANGED notManager

StartTask(fails) == InvokeNext("starting", fails)

StopTask(fails) == InvokeNext("stopping", fails)

(***************************************************************************)
(* HealthCheckTask (mcp-server/src/api/background.py)                      *)
(*                                                                         *)
(* The loop task runs _run_health_check and sleeps, in turn.  A check is   *)
(* one step: health_check_func returns a status or raises an Exception.    *)
(* stop() cancels the task at the await it is in and waits for it; a check *)
(* cancelled there counts nothing.  Checks are made while the counter is   *)
(* below MaxFailures or the check is healthy.                              *)
(***************************************************************************)
DEFAULT_FAILURE_THRESHOLD == 3

FailureThresholds == {1, 2, DEFAULT_FAILURE_THRESHOLD}

\* the highest value of the counter that is explored
MaxFailures == 5

\* what health_check_func does: returns a status whose "service" is
\* "healthy", "degraded" or "unhealthy", or raises
CheckOutcomes == {"healthy", "degraded", "unhealthy", "raises"}

FailuresAfterRaiseSkipped(n, outcome) ==
    IF outcome = "healthy" THEN 0 ELSE IF outcome = "raises" THEN n ELSE n + 1

\* self.consecutive_failures after a check
FailuresAfter(n, outcome) == IF outcome = "healthy" THEN 0 ELSE n + 1

\* self.last_status["service"] after a check
StatusAfter(outcome) == IF outcome = "raises" THEN "unhealthy" ELSE outcome

\* the message the check logs
LogAfter(n, outcome, threshold) ==
    IF outcome = "healthy" THEN (IF n > 0 THEN "info" ELSE "none")
    ELSE IF outcome = "raises" THEN "error"
    ELSE IF n + 1 >= threshold THEN "error"
    ELSE "warning"

\* start()
HealthStart ==
    /\ IF healthRunning
       THEN UNCHANGED <<healthRunning, healthPc>>
       ELSE healthRunning' = TRUE /\ healthPc' = "checking"
    /\ UNCHANGED <<failure_threshold, consecutive_failures, last_status, healthLog,
                   failedChecks>>
    /\ UNCHANGED notHealth

\* _run_health_check()
RunHealthCheck(outcome) ==
    /\ healthPc = "checking"
    /\ outcome # "healthy" => consecutive_failures < MaxFailures
    /\ consecutive_failures' = FailuresAfter(consecutive_failures, outcome)
    /\ last_status' = StatusAfter(outcome)
    /\ healthLog' = LogAfter(consecutive_failures, outcome, failure_threshold)
    /\ failedChecks' = IF outcome = "healthy" THEN 0 ELSE failedChecks + 1
    /\ healthPc' = "sleeping"
    /\ UNCHANGED <<failure_threshold, healthRunning>>
    /\ UNCHANGED notHealth

\* "await asyncio.sleep(self.interval)" returns: "while self.running"
HealthSleepReturns ==
    /\ healthPc = "sleeping"
    /\ healthPc' = IF healthRunning THEN "checking" ELSE "finished"
    /\ UNCHANGED <<failure_threshold, consecutive_failures, last_status,
                   healthRunning, healthLog, failedChecks>>
    /\ UNCHANGED notHealth

\* stop()
HealthStop ==
    /\ IF healthRunning
       THEN healthRunning' = FALSE /\ healthPc' = "none"
       ELSE UNCHANGED <<healthRunning, healthPc>>
    /\ UNCHANGED <<failure_threshold, consecutive_failures, last_status, healthLog,
                   failedChecks>>
    /\ UNCHANGED notHealth

(***************************************************************************)
(* The diffusion model wrapper (diffusers-runtime/model.py) and its dtype  *)
(* selection (diffusers-runtime/dtype_selector.py, device_manager.py;      *)
(* model.py holds the same functions as methods).                          *)
(*                                                                         *)
(* The environment of a process is the DTYPE variable, the device torch    *)
(* reports, what the GPU says of bfloat16 and of its compute capability,   *)
(* and the torch_dtype of the model's config.  The steps are those of the  *)
(* __main__ block: the constructor, which calls load(), the call of load() *)
(* that follows it, and the start of the server.  A load() returns or      *)
(* raises (from_pretrained fails), which ends the process.                 *)
(***************************************************************************)
DtypeSettings == {"auto", "float32", "float16", "bfloat16", "native", "other"}

DeviceTypes == {"cuda", "mps", "cpu"}

\* getattr(config, 'torch_dtype', None), or load_config raises
ConfigDtypes == {"torch.bfloat16", "torch.float16", "torch.float32", "None", "raises"}

\* compute capability major versions: before Ampere, and Ampere
CapabilityMajors == {7, 8}

RuntimeEnvs ==
    {e \in [dtype : DtypeSettings, device : DeviceTypes, bf16 : BOOLEAN,
            major : CapabilityMajors \cup {0}, config : ConfigDtypes] :
        IF e.device = "cuda" THEN e.major # 0 ELSE e.major = 0 /\ ~e.bf16}

\* DeviceManager.check_bfloat16_support()
CheckBfloat16Support(e) ==
    IF e.device # "cuda" THEN FALSE
    ELSE e.bf16 /\ e.major >= 8

\* DtypeSelector.get_model_native_dtype()
ModelNativeDtype(e) ==
    IF e.config = "torch.bfloat16" THEN "bfloat16"
    ELSE IF e.config = "torch.float16" THEN "float16"
    ELSE "float32"

\* DtypeSelector._intelligent_dtype_selection(device_type)
IntelligentDtypeSelection(e) ==
    IF e.device = "cuda"
    THEN IF CheckBfloat16Support(e) THEN "bfloat16"
         ELSE IF ModelNativeDtype(e) # "float32" THEN ModelNativeDtype(e)
         ELSE "float16"
    ELSE IF e.device = "mps" THEN "float32"
    ELSE ModelNativeDtype(e)

GetDtypeWithFallbackAnyDevice(target, e) ==
    IF target = "bfloat16"
    THEN IF e.device = "cuda" /\ CheckBfloat16Support(e) THEN "bfloat16"
         ELSE IF ModelNativeDtype(e) # "float32" THEN ModelNativeDtype(e)
         ELSE IF e.device = "cuda" THEN "float16"
         ELSE "float32"
    ELSE IF target = "float16"
    THEN IF e.device = "cuda" THEN "float16" ELSE ModelNativeDtype(e)
    ELSE target

\* DtypeSelector._get_dtype_with_fallback(target_dtype, device_type)
GetDtypeWithFallback(target, e) ==
    IF target = "bfloat16"
    THEN IF e.device = "cuda" /\ CheckBfloat16Support(e) THEN "bfloat16"
         ELSE IF ModelNativeDtype(e) # "float32" /\ e.device = "cuda"
              THEN ModelNativeDtype(e)
         ELSE IF e.device = "cuda" THEN "float16"
         ELSE "float32"
    ELSE IF target = "float16"
    THEN IF e.device = "cuda" THEN "float16" ELSE ModelNativeDtype(e)
    ELSE target

\* DtypeSelector.determine_torch_dtype(device_type)
DetermineTorchDtype(e) ==
    IF e.dtype = "float32" THEN "float32"
    ELSE IF e.dtype = "float16" THEN GetDtypeWithFallback("float16", e)
    ELSE IF e.dtype = "bfloat16" THEN GetDtypeWithFallback("bfloat16", e)
    ELSE IF e.dtype = "native" THEN ModelNativeDtype(e)
    ELSE IntelligentDtypeSelection(e)

\* load(): device, precision, optimizations and pipeline, then the ready flag
Load(ok) ==
    /\ resolvedDtype' = DetermineTorchDtype(runtimeEnv)
    /\ IF ok
       THEN loads' = loads + 1 /\ modelReady' = TRUE
       ELSE UNCHANGED <<loads, modelReady>>

\* "model = DiffusersModel(args.model_name)": __init__ ends with self.load()
Construct(ok) ==
    /\ mainPc = "start"
    /\ Load(ok)
    /\ mainPc' = IF ok THEN "constructed" ELSE "crashed"
    /\ UNCHANGED runtimeEnv
    /\ UNCHANGED notDiffusers

\* "model.load()" of the __main__ block
MainLoad(ok) ==
    /\ mainPc = "constructed"
    /\ Load(ok)
    /\ mainPc' = IF ok THEN "loaded" ELSE "crashed"
    /\ UNCHANGED runtimeEnv
    /\ UNCHANGED notDiffusers

\* "ModelServer().start([model])"
StartServer ==
    /\ mainPc = "loaded"
    /\ mainPc' = "serving"
    /\ UNCHANGED <<runtimeEnv, loads, modelReady, resolvedDtype>>
    /\ UNCHANGED notDiffusers

(***************************************************************************)
(* Specifications, one per component                                       *)
(***************************************************************************)
\* the config file and what Client(config) does with what was read: the file
\* is missing or holds a configuration or no JSON; Client(...) returns, or
\* raises ("client_fails" for a configuration read from the file,
\* "missing_client_fails" for the substituted empty one)
ConfigFiles == {"missing", "valid", "invalid_json", "client_fails", "missing_client_fails"}

\* "if not config_path.exists()"
FileMissing(file) == file \in {"missing", "missing_client_fails"}

\* no call and no initialize() in progress
MCPQuiet ==
    /\ tools = {}
    /\ initialized = FALSE
    /\ configLoaded = TRUE
    /\ initPc = "idle"
    /\ initResult = "none"
    /\ callPc = "idle"
    /\ callName = <<>>
    /\ callArgs = NoArgs
    /\ sanitizedArgs = NoArgs
    /\ attempt = 0
    /\ execLog = <<>>
    /\ lastError = NoError
    /\ sleeps = <<>>
    /\ callResult = NoResult

\* the state after MCPService() has run _load_config_and_client() without
\* raising (invalid JSON makes the constructor raise)
MCPConstructed ==
    /\ \E file \in ConfigFiles \ {"invalid_json"} :
          /\ config = (IF file = "missing" THEN "empty"
                       ELSE IF file = "valid" THEN "file" ELSE "none")
          /\ client = (file \in {"missing", "valid"})
    /\ MCPQuiet

MCPAtRest == config = "empty" /\ client = TRUE /\ MCPQuiet

StreamAtRest ==
    /\ streamPc = "idle"
    /\ streamMsg = <<>>
    /\ events = <<>>
    /\ pending = <<>>
    /\ chunks = <<>>
    /\ failure = NoFailure

KServeQuiet ==
    /\ kPc = "idle"
    /\ kAttempt = 0
    /\ kRequests = <<>>
    /\ kLastException = NoKError
    /\ kDelays = <<>>
    /\ kResult = NoKError

KServeAtRest == kMaxRetries = 3 /\ KServeQuiet

\* a new storage instance over an empty directory
StorageAtRest ==
    /\ locked = FALSE
    /\ waiters = <<>>
    /\ tpc = [t \in Tasks |-> "idle"]
    /\ targ = [t \in Tasks |-> NoArg]
    /\ tres = [t \in Tasks |-> NoRes]
    /\ img = [id \in ImageIds |-> AbsentImage]
    /\ meta = [id \in ImageIds |-> AbsentMeta]
    /\ now = 0

\* two new backends over an empty directory and an empty bucket
BackendsAtRest ==
    /\ fileStore = EmptyStore
    /\ s3Store = EmptyStore
    /\ clock = 0
    /\ lastCall = NoCall

FirstAtRest == MCPAtRest /\ StreamAtRest /\ KServeAtRest /\ StorageAtRest

ImageServerAtRest ==
    /\ srvStore = EmptyServerStore
    /\ generated = NoGenResult
    /\ httpResp = NoHttpResponse
    /\ genStages = <<>>
    /\ toolResp = NoToolResponse

AppAtRest ==
    /\ app_state = EmptyAppState
    /\ startupPc = "idle"
    /\ shutdownPc = "idle"
    /\ shutdownBlock = 0
    /\ shutdownLog = <<>>
    /\ lastAccess = NoAccess
    /\ kserveCloses = 0

\* CleanupTask.__init__, whatever the interval
CleanupConstructed ==
    /\ running = FALSE
    /\ loopPc = "none"
    /\ cancelRequested = FALSE
    /\ stopPc = "idle"
    /\ sleepFor = 0
    /\ storageLockHeld = FALSE
    /\ lastSweep = "none"
    /\ failedBefore = FALSE
    /\ taskSet = FALSE
    /\ oldPc = "none"
    /\ cleanupCall = "none"

CleanupAtRest == interval = DEFAULT_CLEANUP_INTERVAL /\ CleanupConstructed

ServerAtRest == BackendsAtRest /\ ImageServerAtRest /\ AppAtRest /\ CleanupAtRest

CompletionAtRest ==
    /\ compPc = "idle"
    /\ compTools = FALSE
    /\ compRounds = 0
    /\ compCalls = 0
    /\ compTexts = <<>>
    /\ compResult = NoCompletionResult

DeltasAtRest ==
    /\ deltas = <<>>
    /\ tool_calls = <<>>
    /\ current_tool_call = NoId

ManagerAtRest ==
    /\ mgrTasks = <<>>
    /\ mgrRunning = FALSE
    /\ mgrPc = "idle"
    /\ mgrIndex = 0
    /\ mgrInvoked = <<>>
    /\ mgrFailed = {}
    /\ mgrResult = "none"

\* HealthCheckTask.__init__, whatever the threshold
HealthConstructed ==
    /\ consecutive_failures = 0
    /\ last_status = "none"
    /\ healthRunning = FALSE
    /\ healthPc = "none"
    /\ healthLog = "none"
    /\ failedChecks = 0

HealthAtRest == failure_threshold = DEFAULT_FAILURE_THRESHOLD /\ HealthConstructed

\* before the __main__ block has run
DiffusersNotStarted ==
    /\ mainPc = "start"
    /\ loads = 0
    /\ modelReady = FALSE
    /\ resolvedDtype = "none"

DiffusersAtRest ==
    /\ runtimeEnv = [dtype |-> "auto", device |-> "cpu", bf16 |-> FALSE, major |-> 0,
                     config |-> "None"]
    /\ DiffusersNotStarted

LaterAtRest ==
    CompletionAtRest /\ DeltasAtRest /\ ManagerAtRest /\ HealthAtRest /\ DiffusersAtRest

InitMCP == MCPConstructed /\ StreamAtRest /\ KServeAtRest /\ StorageAtRest /\ ServerAtRest /\ LaterAtRest

NextMCP ==
    \/ \E file \in ConfigFiles : LoadConfigAndClient(file)
    \/ InitializeCall
    \/ \E o \in DiscoveryOutcomes, c \in ServerCatalogues : InitializeFinish(o, c)
    \/ Shutdown
    \/ \E n \in ToolNameInputs, a \in ArgumentInputs : CallTool(n, a)
    \/ \E o \in ExecOutcomes : Attempt(o)
    \/ WakeUp
    \/ CallReturns

SpecMCP == InitMCP /\ [][NextMCP]_vars

InitStream == StreamAtRest /\ MCPAtRest /\ KServeAtRest /\ StorageAtRest /\ ServerAtRest /\ LaterAtRest

NextStream ==
    \/ \E m \in MessageInputs, setup \in {"import_fails", "unavailable", "available"} :
          StartStream(m, setup)
    \/ YieldChar
    \/ \E c \in ChunkInputs : LLMChunk(c)
    \/ \E e \in LLMErrorInputs : LLMFails(e)
    \/ StreamCompletes
    \/ Disconnect
    \/ NewRequest

SpecStream == InitStream /\ [][NextStream]_vars

\* a client built with any permitted max_retries setting
InitKServe ==
    /\ kMaxRetries \in 0..MaxRetriesBound
    /\ KServeQuiet
    /\ MCPAtRest /\ StreamAtRest /\ StorageAtRest /\ ServerAtRest /\ LaterAtRest

NextKServe ==
    \/ KStart
    \/ \E o \in RequestOutcomes : KRequest(o)
    \/ KWakeUp
    \/ KReturns

SpecKServe == InitKServe /\ [][NextKServe]_vars

InitStorage == StorageAtRest /\ MCPAtRest /\ StreamAtRest /\ KServeAtRest /\ ServerAtRest /\ LaterAtRest

NextStorage ==
    \/ \E t \in Tasks, id \in ImageIds, d \in DataInputs : BeginSave(t, id, d)
    \/ \E t \in Tasks, id \in ImageIds : BeginDelete(t, id)
    \/ \E t \in Tasks, ttl \in TtlInputs : BeginCleanup(t, ttl)
    \/ \E t \in Tasks : LockGranted(t)
    \/ \E t \in Tasks, o \in {"ok", "fail", "partial"} : SaveWriteImage(t, o)
    \/ \E t \in Tasks, o \in {"ok", "fail"} : SaveWriteMeta(t, o)
    \/ \E t \in Tasks, o \in UnlinkOutcomes : DeleteBody(t, o)
    \/ \E t \in Tasks, o \in [ImageIds -> UnlinkOutcomes] : CleanupBody(t, o)
    \/ Tick

SpecStorage == InitStorage /\ [][NextStorage]_vars

InitBackends ==
    BackendsAtRest /\ FirstAtRest /\ ImageServerAtRest /\ AppAtRest /\ CleanupAtRest /\ LaterAtRest

NextBackends ==
    \/ \E id \in ImageIds, d \in ImageInputs, lag \in {0, 1} : CallSave(id, d, lag)
    \/ \E id \in ImageIds : CallGet(id)
    \/ CallList
    \/ \E id \in ImageIds : CallDelete(id)
    \/ \E ttl \in TtlSeconds : CallCleanup(ttl)
    \/ ClockTick

SpecBackends == InitBackends /\ [][NextBackends]_vars

InitImageServer ==
    ImageServerAtRest /\ FirstAtRest /\ BackendsAtRest /\ AppAtRest /\ CleanupAtRest /\ LaterAtRest

NextImageServer ==
    \/ \E id \in ImageIds, o \in GenerateOutcomes : GenerateImage(id, o)
    \/ \E id \in ImageIds, o \in GenerateOutcomes : McpGenerateImage(id, o)
    \/ McpGenerateImageMalformed
    \/ \E id \in RouteIds, env \in StorageAnswers : GetImageRoute(id, env)

SpecImageServer == InitImageServer /\ [][NextImageServer]_vars

InitApp ==
    AppAtRest /\ FirstAtRest /\ BackendsAtRest /\ ImageServerAtRest /\ CleanupAtRest /\ LaterAtRest

NextApp ==
    \/ StartupBegin
    \/ \E ok \in BOOLEAN : StartupStep(ok)
    \/ StartupHealth
    \/ \E slot \in Accessors : Access(slot)
    \/ ShutdownBegin
    \/ \E failed \in BOOLEAN : ShutdownStep(failed)

SpecApp == InitApp /\ [][NextApp]_vars

InitCleanup ==
    /\ interval \in CleanupIntervals
    /\ CleanupConstructed
    /\ FirstAtRest /\ BackendsAtRest /\ ImageServerAtRest /\ AppAtRest /\ LaterAtRest

\* the steps of the loop task
LoopTask ==
    \/ LoopStart
    \/ SweepLockGranted
    \/ \E ok \in BOOLEAN : SweepFinish(ok)
    \/ SleepReturns
    \/ CancelDelivered
    \/ OldCancelDelivered

NextCleanup ==
    \/ CleanupStart
    \/ LoopTask
    \/ StopBegin
    \/ StopEnd
    \/ RequestBegin
    \/ RequestEnd

SpecCleanup == InitCleanup /\ [][NextCleanup]_vars

\* The event loop runs a task that is ready: a started task gets its first
\* step, a sleep that has elapsed returns, a sweep in its body ends, a
\* cancellation is delivered; and a request that holds the storage lock
\* releases it.
FairCleanup ==
    /\ SpecCleanup
    /\ WF_vars(LoopTask)
    /\ WF_vars(RequestEnd)

InitCompletion ==
    CompletionAtRest /\ FirstAtRest /\ ServerAtRest
    /\ DeltasAtRest /\ ManagerAtRest /\ HealthAtRest /\ DiffusersAtRest

\* the awaits of a request in progress
CompletionStep ==
    \/ \E text \in BOOLEAN, n \in 0..MaxToolCalls : CompletionReturns(text, n)
    \/ \E class \in FailureClasses : CompletionRaises(class)
    \/ \E outcome \in {"ok"} \cup FailureClasses : ExecuteToolCall(outcome)

NextCompletion ==
    \/ \E available \in BOOLEAN, withTools \in BOOLEAN : GetCompletion(available, withTools)
    \/ CompletionStep

SpecCompletion == InitCompletion /\ [][NextCompletion]_vars

\* Every await of the request ends: the vendor call and the tool call each
\* return or raise (call_tool is bounded by its timeout and retry budget).
FairCompletion == SpecCompletion /\ WF_vars(CompletionStep)

InitDeltas ==
    DeltasAtRest /\ FirstAtRest /\ ServerAtRest
    /\ CompletionAtRest /\ ManagerAtRest /\ HealthAtRest /\ DiffusersAtRest

NextDeltas ==
    \/ BeginToolStream
    \/ \E id \in ToolCallIds \cup {NoId}, a \in Fragments : ConsumeDelta(id, a)

SpecDeltas == InitDeltas /\ [][NextDeltas]_vars

InitManager ==
    ManagerAtRest /\ FirstAtRest /\ ServerAtRest
    /\ CompletionAtRest /\ DeltasAtRest /\ HealthAtRest /\ DiffusersAtRest

NextManager ==
    \/ \E name \in ManagedTasks : AddTask(name)
    \/ StartAll
    \/ \E fails \in BOOLEAN : StartTask(fails)
    \/ StopAll
    \/ \E fails \in BOOLEAN : StopTask(fails)

SpecManager == InitManager /\ [][NextManager]_vars

InitHealth ==
    /\ failure_threshold \in FailureThresholds
    /\ HealthConstructed
    /\ FirstAtRest /\ ServerAtRest
    /\ CompletionAtRest /\ DeltasAtRest /\ ManagerAtRest /\ DiffusersAtRest

NextHealth ==
    \/ HealthStart
    \/ \E outcome \in CheckOutcomes : RunHealthCheck(outcome)
    \/ HealthSleepReturns
    \/ HealthStop

SpecHealth == InitHealth /\ [][NextHealth]_vars

InitDiffusers ==
    /\ runtimeEnv \in RuntimeEnvs
    /\ DiffusersNotStarted
    /\ FirstAtRest /\ ServerAtRest
    /\ CompletionAtRest /\ DeltasAtRest /\ ManagerAtRest /\ HealthAtRest

NextDiffusers ==
    \/ \E ok \in BOOLEAN : Construct(ok)
    \/ \E ok \in BOOLEAN : MainLoad(ok)
    \/ StartServer

SpecDiffusers == InitDiffusers /\ [][NextDiffusers]_vars

(***************************************************************************)
(* Claims about MCPService.call_tool                                       *)
(***************************************************************************)
LastOutcome == execLog[Len(execLog)]

AllErrors == \A i \in 1..Len(execLog) : execLog[i].kind = "error"

\* C1: call_tool makes at most MAX_RETRIES = 3 execution attempts; a call
\* whose executor failed twice (no timeout) and then succeeded returns that
\* success after exactly 3 attempts; a call whose attempts all failed gave up
\* only after exactly 3 attempts, and when none of the failures was a
\* connection failure it raises a tool execution error wrapping the last one.
C1_RetryBound ==
    /\ Len(execLog) <= MAX_RETRIES
    /\ (callPc = "done" /\ Len(execLog) > 0) =>
          /\ (/\ Len(execLog) >= 3
              /\ execLog[1].kind = "error"
              /\ execLog[2].kind = "error"
              /\ execLog[3].kind = "ok")
                => /\ Len(execLog) = 3
                   /\ callResult = Returned(ResultText(execLog[3].result))
          /\ AllErrors => Len(execLog) = MAX_RETRIES
          /\ (AllErrors /\ \A i \in 1..Len(execLog) : ~ConnectionFlavoured(execLog[i].msg))
                => callResult = Raised("MCPToolExecutionError", LastOutcome.msg)

C1_Witness ==
    /\ callPc = "done"
    /\ Len(execLog) = 3
    /\ execLog[1].kind = "error"
    /\ execLog[2].kind = "error"
    /\ execLog[3].kind = "ok"
    /\ callResult.kind = "return"

\* C2: an attempt that times out is the last one, whichever attempt it is:
\* call_tool ends there and raises the timeout error.
C2_TimeoutNotRetried ==
    \A i \in 1..Len(execLog) :
        execLog[i].kind = "timeout" =>
            /\ i = Len(execLog)
            /\ callPc = "done"
            /\ callResult.kind = "MCPTimeoutError"

C2_Witness ==
    /\ callPc = "done"
    /\ Len(execLog) = 2
    /\ execLog[1].kind = "error"
    /\ execLog[2].kind = "timeout"
    /\ callResult.kind = "MCPTimeoutError"

\* C3: the sleep after the i-th attempt, when that attempt failed with a
\* message containing "connection" or "network", is RETRY_DELAY_SECONDS * i;
\* and when the last of MAX_RETRIES attempts failed that way call_tool
\* raises a connection error, not a tool execution error.
C3_ConnectionBackoff ==
    /\ \A i \in 1..Len(sleeps) :
          ConnectionFlavoured(execLog[i].msg) => sleeps[i] = RETRY_DELAY_SECONDS * i
    /\ (/\ callPc = "done"
        /\ Len(execLog) = MAX_RETRIES
        /\ LastOutcome.kind = "error"
        /\ ConnectionFlavoured(LastOutcome.msg))
          => callResult = Raised("MCPConnectionError", LastOutcome.msg)

C3_Witness ==
    /\ callPc = "done"
    /\ sleeps = <<1, 2>>
    /\ \A i \in 1..3 : ConnectionFlavoured(execLog[i].msg)
    /\ callResult.kind = "MCPConnectionError"

\* a tool name as the claim describes an invalid one: empty, longer than
\* 100 characters, or with a character outside letters, digits, _ - .
NameInvalid(name) ==
    \/ Len(name) = 0
    \/ Len(name) > MAX_TOOL_NAME_LENGTH
    \/ ~AllIn(name, NameChars)

\* what the claim says a call is rejected with, NoResult when it is not
ClaimedRejection(name, arguments) ==
    CASE ~client -> Raised("MCPConnectionError", <<"not", "initialized">>)
      [] NameInvalid(name) -> Raised("MCPValidationError", <<"tool", "name">>)
      [] ArgumentsRejected(arguments) -> Raised("MCPValidationError", <<"arguments">>)
      [] name \notin tools -> Raised("MCPToolNotFoundError", name)
      [] OTHER -> NoResult

\* C4: every call_tool is rejected, in this order, for a missing client, an
\* invalid tool name, invalid arguments, a tool that was not discovered; a
\* rejected call ends at once, with no execution attempt.
C4_RejectedBeforeExecution ==
    [][(callPc = "idle" /\ callPc' # "idle") =>
          /\ callResult' = ClaimedRejection(callName', callArgs')
          /\ (callResult' # NoResult => callPc' = "done" /\ execLog' = <<>>)]_vars

(***************************************************************************)
(* Claims about generate_streaming_response                                *)
(***************************************************************************)
EventsOfType(ty) == {i \in 1..Len(events) : events[i].type = ty}

\* the text carried by the content events from position k on
RECURSIVE ContentFrom(_)
ContentFrom(k) ==
    IF k > Len(events) \/ events[k].type # "content" THEN <<>>
    ELSE <<events[k].content>> \o ContentFrom(k + 1)

\* C5 as stated: when the chat service fails mid-stream the event sequence
\* contains a type:"error" event, the stream ends there and no type:"done"
\* event is emitted after the failure.
C5_ErrorEventOnFailure ==
    (streamPc = "closed" /\ failure.where = "llm") =>
        /\ EventsOfType("error") # {}
        /\ EventsOfType("done") = {}

\* C5 amended: a failure of the LLM stream is reported in-band: the chunks
\* received so far are followed by the error text, one content event per
\* character, and the stream then ends with its single type:"done" event; no
\* type:"error" event is emitted for it.  A type:"error" event is emitted
\* only for a failure before the first event, it is then the only event, and
\* in no stream does a done event follow an error event.
C5_FailureReportedAsContent ==
    /\ (streamPc = "closed" /\ failure.where = "llm") =>
          /\ EventsOfType("error") = {}
          /\ EventsOfType("done") = {Len(events)}
          /\ Len(events) = Len(chunks) + Len(ErrorText(failure.msg)) + 1
          /\ ContentFrom(Len(chunks) + 1) = ErrorText(failure.msg)
    /\ EventsOfType("error") # {} =>
          /\ failure.where = "setup"
          /\ streamPc = "closed"
          /\ Len(events) = 1

C5_Witness ==
    /\ streamPc = "closed"
    /\ failure.where = "llm"
    /\ Len(chunks) >= 1
    /\ events[Len(events)] = DoneEvent

\* C6: a successful streaming completion (LLM or echo mode) is zero or more
\* type:"content" events followed by exactly one type:"done" event, which is
\* the last event of the stream.
C6_ContentThenOneDone ==
    (streamPc = "closed" /\ failure = NoFailure) =>
        /\ Len(events) >= 1
        /\ events[Len(events)] = DoneEvent
        /\ EventsOfType("done") = {Len(events)}
        /\ EventsOfType("content") = 1..(Len(events) - 1)

C6_Witness ==
    /\ streamPc = "closed"
    /\ failure = NoFailure
    /\ Len(chunks) = MaxChunks
    /\ Len(events) = MaxChunks + 1
    /\ events[Len(events)] = DoneEvent

(***************************************************************************)
(* Claims about KServeClient._make_request_with_retry                      *)
(***************************************************************************)
AllRequestsAre(kind) ==
    /\ kRequests # <<>>
    /\ \A i \in 1..Len(kRequests) : kRequests[i].kind = kind

IsErrorStatus(o) == o.kind = "response" /\ o.status >= 400

\* the error that the spec pairs with an error status
MatchingKind(st) ==
    CASE st = 404 -> "KServeModelNotReadyError"
      [] st = 429 -> "KServeRateLimitError"
      [] OTHER -> "KServeInferenceError"

\* C7: a call issues at most max_retries+1 requests; when every attempt is a
\* connection failure (a timeout) exactly max_retries+1 requests are issued
\* and the connection (timeout) error is raised; a response with the expected
\* status is returned at once, with no request after it.
C7_RetryBudget ==
    /\ Len(kRequests) <= kMaxRetries + 1
    /\ (kPc = "done" /\ AllRequestsAre("ConnectError")) =>
          /\ Len(kRequests) = kMaxRetries + 1
          /\ kResult.kind = "KServeConnectionError"
    /\ (kPc = "done" /\ AllRequestsAre("TimeoutException")) =>
          /\ Len(kRequests) = kMaxRetries + 1
          /\ kResult.kind = "KServeTimeoutError"
    /\ \A i \in 1..Len(kRequests) :
          (kRequests[i].kind = "response" /\ kRequests[i].status = EXPECTED_STATUS) =>
              /\ i = Len(kRequests)
              /\ kPc = "done"
              /\ kResult = KResponse(EXPECTED_STATUS)

C7_Witness ==
    /\ kPc = "done"
    /\ kMaxRetries >= 2
    /\ AllRequestsAre("ConnectError")
    /\ Len(kRequests) = kMaxRetries + 1
    /\ kResult.kind = "KServeConnectionError"

\* C8: a response with status 404, 429 or any other status >= 400 is not
\* retried: no request follows it, the matching error is raised from that
\* attempt, and when it answers the first request exactly one request is made.
C8_ErrorStatusNotRetried ==
    \A i \in 1..Len(kRequests) :
        IsErrorStatus(kRequests[i]) =>
            /\ i = Len(kRequests)
            /\ kPc = "done"
            /\ kResult.kind = MatchingKind(kRequests[i].status)
            /\ kResult.at = i

C8_Witness ==
    /\ kPc = "done"
    /\ kMaxRetries >= 1
    /\ Len(kRequests) = 1
    /\ kRequests[1].kind = "response"
    /\ kRequests[1].status = 429
    /\ kResult.kind = "KServeRateLimitError"

\* C9: for a response with status >= 400 other than 404 and 429 whose body
\* parses as a structured error, the inference error raised carries the
\* body's code and details; only an unparseable body gives the error that
\* carries the raw status and text.
C9_StructuredErrorCarried ==
    (kPc = "done" /\ kRequests # <<>>) =>
        LET last == kRequests[Len(kRequests)] IN
        (IsErrorStatus(last) /\ last.status \notin {404, 429}) =>
            IF ParsesAsErrorResponse(last.body)
            THEN /\ kResult.kind = "KServeInferenceError"
                 /\ kResult.msg = last.body.error
                 /\ kResult.code = last.body.code
                 /\ kResult.details = last.body.details
            ELSE kResult = RawInferenceError(last, Len(kRequests))

(***************************************************************************)
(* Claims about the storage lock                                           *)
(***************************************************************************)
Holders == {t \in Tasks : InCriticalSection(t)}

\* C10: on one storage instance save_image, delete_image and
\* cleanup_expired_images never run their critical sections concurrently: at
\* most one task is inside "async with self._lock" and it holds the lock, so
\* while a save is between its image write and its metadata write no other
\* mutating operation runs.
C10_MutualExclusion ==
    /\ Cardinality(Holders) <= 1
    /\ Holders # {} => locked
    /\ \A t \in Tasks : tpc[t] = "save_meta" =>
          \A u \in Tasks \ {t} : tpc[u] \in {"idle", "wait"}

C10_Witness ==
    \E t, u \in Tasks :
        /\ tpc[t] = "save_meta"
        /\ tpc[u] = "wait"
        /\ targ[u].op \in {"delete", "cleanup"}
        /\ targ[u].id = targ[t].id

(***************************************************************************)
(* Claims about the storage operations of the two backends                 *)
(***************************************************************************)
RecordsOf(res, id) == {r \in res.records : r.image_id = id}

\* C11: after save_image(B, I, meta) of a non-empty B has succeeded,
\* get_image(I) returns bytes equal to B and list_images() contains exactly
\* one record with image_id = I, on the file backend and on the S3 backend
\* alike (whether or not the backend held I before); a get_image(I) or a
\* list_images() called next returns just that.
C11_SaveGetList ==
    [][/\ \A id \in ImageIds, d \in ImageInputs, lag \in {0, 1} :
              (CallSave(id, d, lag) /\ d # <<>>) =>
                  /\ lastCall'.file.kind = "saved"
                  /\ lastCall'.s3.kind = "saved"
                  /\ FileGet(fileStore', id) = BytesResult(d)
                  /\ S3Get(s3Store', id) = BytesResult(d)
                  /\ Cardinality(RecordsOf(FileList(fileStore'), id)) = 1
                  /\ Cardinality(RecordsOf(S3List(s3Store'), id)) = 1
       /\ (lastCall.op = "save" /\ lastCall.file.kind = "saved" /\ CallGet(lastCall.id)) =>
              /\ lastCall'.file = BytesResult(lastCall.data)
              /\ lastCall'.s3 = BytesResult(lastCall.data)
       /\ (lastCall.op = "save" /\ lastCall.file.kind = "saved" /\ CallList) =>
              /\ Cardinality(RecordsOf(lastCall'.file, lastCall.id)) = 1
              /\ Cardinality(RecordsOf(lastCall'.s3, lastCall.id)) = 1
      ]_vars

\* a save of I into a store that holds another image has been made and is
\* readable
C11_Witness ==
    /\ lastCall.op = "save"
    /\ lastCall.file.kind = "saved"
    /\ FileGet(fileStore, lastCall.id) = BytesResult(lastCall.data)
    /\ \E other \in ImageIds \ {lastCall.id} :
          /\ fileStore.png[other].present
          /\ fileStore.png[other].data # lastCall.data
    /\ Cardinality(FileList(fileStore).records) = 2

\* C12: delete_image(I) returns true if and only if it removed something;
\* called right after a successful save of I it returns true; after it,
\* get_image(I) returns absent and another delete_image(I) returns false.
C12_DeleteTrueIffRemoved ==
    [][\A id \in ImageIds :
          CallDelete(id) =>
              /\ lastCall'.file.flag <=> (fileStore' # fileStore)
              /\ lastCall'.s3.flag <=> (s3Store' # s3Store)
              /\ (lastCall.op = "save" /\ lastCall.id = id /\ lastCall.file.kind = "saved") =>
                     (lastCall'.file.flag /\ lastCall'.s3.flag)
              /\ FileGet(fileStore', id) = NoneResult
              /\ S3Get(s3Store', id) = NoneResult
              /\ FileDelete(fileStore', id).res = BoolResult(FALSE)
              /\ S3Delete(s3Store', id).res = BoolResult(FALSE)
      ]_vars

C12_Witness ==
    /\ lastCall.op = "delete"
    /\ lastCall.file = BoolResult(TRUE)
    /\ lastCall.s3 = BoolResult(TRUE)
    /\ FileGet(fileStore, lastCall.id) = NoneResult
    /\ \E other \in ImageIds : fileStore.png[other].present

\* the stored images whose age exceeds ttl at time t
OlderThan(st, ttl, t) == {id \in ImageIds : st.png[id].present /\ t - st.png[id].mtime > ttl}

\* C13: cleanup_expired_images(ttl) deletes exactly the stored images older
\* than ttl and returns how many it deleted; every other image remains
\* retrievable with get_image, unchanged.
C13_CleanupExactlyExpired ==
    [][\A ttl \in TtlSeconds :
          CallCleanup(ttl) =>
              /\ lastCall'.file = CountResult(Cardinality(OlderThan(fileStore, ttl, clock)))
              /\ lastCall'.s3 = CountResult(Cardinality(OlderThan(s3Store, ttl, clock)))
              /\ \A id \in ImageIds :
                    /\ FileGet(fileStore', id) =
                          IF id \in OlderThan(fileStore, ttl, clock) THEN NoneResult
                          ELSE FileGet(fileStore, id)
                    /\ S3Get(s3Store', id) =
                          IF id \in OlderThan(s3Store, ttl, clock) THEN NoneResult
                          ELSE S3Get(s3Store, id)
      ]_vars

\* one image modified now and one modified 2*ttl ago: the cleanup has
\* deleted one and the image modified now is still there
C13_Witness ==
    /\ lastCall.op = "cleanup"
    /\ lastCall.file = CountResult(1)
    /\ clock = 2 * lastCall.ttl
    /\ \E id \in ImageIds :
          /\ fileStore.png[id].present
          /\ fileStore.png[id].mtime = clock
          /\ FileGet(fileStore, id).kind = "bytes"
    /\ \E id \in ImageIds : ~fileStore.png[id].present

\* a record of list_images without the fields only one backend has
CommonFields(r) ==
    [image_id |-> r.image_id, size |-> r.size, created_at |-> r.created_at,
     format |-> r.format, actual_size |-> r.actual_size]

\* a result as the caller can compare it across backends: the path or key
\* returned by save_image and the backend's own record fields left out
Observable(res) ==
    [res EXCEPT !.path = <<>>, !.records = {CommonFields(r) : r \in res.records}]

C15_NotFoundIs404 ==
    /\ httpResp.storage \in {"None", "ImageNotFoundError"} =>
          (httpResp.status = 404 /\ httpResp.error = "image_not_found")
    /\ httpResp.status = 500 => httpResp.storage = "StorageError"

\* C16: after generate_image has succeeded, a GET of the returned url on
\* the image route (the storage answering without failure) returns status
\* 200 and bytes identical to the image the inference backend produced.
C16_UrlResolvesToImage ==
    [][\A id \in RouteIds :
          (/\ generated.kind = "ok"
           /\ generated.url.base = STORAGE_URL
           /\ id = generated.url.path
           /\ GetImageRoute(id, "stored")) =>
              /\ httpResp'.status = 200
              /\ httpResp'.body = generated.produced
      ]_vars

(***************************************************************************)
(* Claims about the application lifecycle                                  *)
(***************************************************************************)
Calls(log) == [i \in 1..Len(log) |-> log[i].call]

\* the calls of the first n blocks of shutdown() whose slot holds an object
CallsDue(n) ==
    LET due == SelectSeq(SubSeq(ShutdownSteps, 1, n), LAMBDA b : app_state[b.slot])
    IN [i \in 1..Len(due) |-> due[i].call]

\* C17: shutdown stops the cleanup task, then closes the MCP server, then
\* closes the KServe client (all three after a completed startup, otherwise
\* those whose object exists); a step that fails does not keep the later
\* steps from running, and shutdown returns without raising.
C17_ShutdownOrder ==
    /\ shutdownPc # "raised"
    /\ shutdownPc = "running" => Calls(shutdownLog) = CallsDue(shutdownBlock - 1)
    /\ shutdownPc = "done" => Calls(shutdownLog) = CallsDue(Len(ShutdownSteps))
    /\ (shutdownPc = "done" /\ startupPc = "complete") =>
          Calls(shutdownLog) = <<"cleanup_task.stop", "mcp_server.close",
                                 "kserve_client.close">>

C17_Witness ==
    /\ startupPc = "complete"
    /\ shutdownPc = "done"
    /\ Len(shutdownLog) = 3
    /\ \A i \in 1..3 : shutdownLog[i].failed

\* C18: each accessor raises the "not initialized" error whenever it is
\* called before startup() has completed, including while startup is in
\* progress and after a startup that failed part-way.
C18_AccessorsRaiseBeforeStartupCompletes ==
    (lastAccess.slot \in Accessors /\ lastAccess.startup # "complete") =>
        lastAccess.result = "RuntimeError: Application not initialized"

(***************************************************************************)
(* Claims about the CleanupTask                                            *)
(***************************************************************************)
\* C19: an iteration of the cleanup loop that fails does not end the loop
\* task: the loop waits min(interval, 60) seconds, and, unless the task is
\* stopped, another sweep is eventually attempted.
C19_FailedIterationRetried ==
    /\ [](lastSweep = "failed" => loopPc \in {"errsleep", "finished", "none"})
    /\ []((loopPc = "finished" /\ failedBefore) => (~running \/ stopPc = "awaiting"))
    /\ [](loopPc = "errsleep" =>
             sleepFor = (IF interval < 60 THEN interval ELSE 60))
    /\ (loopPc = "errsleep") ~> (lastSweep = "started" \/ ~running)

C19_Witness ==
    /\ running
    /\ failedBefore
    /\ lastSweep = "started"
    /\ interval > 60

\* C20: stopping the CleanupTask never interrupts a sweep in progress: a
\* sweep that has started runs to completion before the loop task exits.
C20_SweepNotInterrupted ==
    loopPc \in {"finished", "none"} => lastSweep \in {"none", "completed", "failed"}

(***************************************************************************)
(* Claims about the lifecycle of the MCPService                            *)
(***************************************************************************)
\* C21: once initialize() has been called (the initialized flag is set), a
\* later initialize() starts no connection and no tool discovery and leaves
\* the client and the tool list as they are, also when the first call
\* discovered no tools.
C21_LaterInitializeIsNoOp ==
    /\ [][(initialized /\ initialized' /\ initPc # "discovering")
              => initPc' # "discovering"]_vars
    /\ [][(initialized /\ initResult' = "noop" /\ initResult # "noop")
              => (tools' = tools /\ client' = client /\ initPc' = initPc)]_vars

C21_Witness ==
    /\ initialized
    /\ initResult = "noop"
    /\ client
    /\ config = "file"
    /\ tools = {}
    /\ initPc = "idle"

C23_MissingConfigStillHasClient ==
    [][\A file \in ConfigFiles :
          (FileMissing(file) /\ LoadConfigAndClient(file))
              => (client' /\ config' = "empty")]_vars

C25_ToolFailuresNotHttpErrors ==
    /\ [](toolResp # NoToolResponse =>
            /\ toolResp.status = 200
            /\ toolResp.error = "" => toolResp.result.kind = "ok"
            /\ toolResp.error # "" =>
                  /\ toolResp.result = NoGenResult
                  /\ toolResp.error \in {"ValidationError", "ImageGenerationError",
                                         "StorageError", "pydantic.ValidationError"})
    /\ [][(toolResp' # toolResp /\ generated' # generated) =>
             (/\ toolResp'.error = (IF generated'.kind = "ok" THEN "" ELSE generated'.kind)
              /\ generated'.kind = "ok" => toolResp'.result = generated')]_vars

C25_Witness ==
    /\ toolResp.status = 200
    /\ toolResp.error = "StorageError"
    /\ genStages = GenStages

\* C26: generate_image runs validate, generate, validate image, store,
\* resolve URL in that order and stops at the first stage that fails; a
\* failure of a validation stage raises a validation error, of the inference
\* backend a generation error, of storing or resolving a storage error.
C26_ErrorKindPerStage ==
    /\ \E n \in 0..Len(GenStages) : genStages = SubSeq(GenStages, 1, n)
    /\ generated.kind = "ok" => genStages = GenStages
    /\ (generated.kind \notin {"ok", "none"}) =>
          /\ genStages # <<>>
          /\ generated.kind =
                (CASE genStages[Len(genStages)] \in {"validate", "validate_image"}
                          -> "ValidationError"
                   [] genStages[Len(genStages)] = "generate" -> "ImageGenerationError"
                   [] OTHER -> "StorageError")
    /\ (\E i \in 1..Len(genStages) : genStages[i] = "store") <=>
          (generated.kind = "ok" \/ (generated.kind = "StorageError"))

C26_Witness ==
    /\ generated.kind = "ImageGenerationError"
    /\ genStages = <<"validate", "generate">>

(***************************************************************************)
(* Claims about LiteLLMService                                             *)
(***************************************************************************)
\* C27, as stated: the tool-use loop of get_completion is bounded; for every
\* request, the sequence of completion call, tool execution and continuation
\* terminates after a finite number of rounds.
C27_LoopTerminates == (compPc = "completing") ~> CompletionEnded

\* C27, amended: the loop has no bound of its own.  A request returns only
\* on a completion without tool calls; after the last tool call of a response
\* the next completion call follows, whatever the number of rounds made; so a
\* request ends unless the vendor returns tool calls again and again.
C27_LoopEndsWhenVendorStops ==
    /\ [][(compPc # "returned" /\ compPc' = "returned")
              => (compPc = "completing" /\ compCalls' = 0)]_vars
    /\ [][(compPc = "executing" /\ compCalls = 1 /\ compPc' # "raised")
              => (compPc' = "completing" /\ compTexts' = compTexts)]_vars
    /\ [][(compPc = "executing" /\ compPc' = "completing") => compCalls = 1]_vars
    /\ ([]<>CompletionEnded \/ []<>(compPc = "executing"))

\* a request in its completion call after MaxRounds rounds or more
C27_Witness == compPc = "completing" /\ compRounds = MaxRounds /\ Len(compTexts) = MaxRounds

\* the id carried by the latest of the first n deltas that had one
RECURSIVE LastSeenId(_, _)
LastSeenId(ds, n) ==
    IF n = 0 THEN NoId
    ELSE IF ds[n].id # NoId THEN ds[n].id
    ELSE LastSeenId(ds, n - 1)

\* the arguments the first n deltas give to the tool call id, when a delta
\* without id belongs to the most recently seen id
RECURSIVE FragmentsFor(_, _, _)
FragmentsFor(ds, n, id) ==
    IF n = 0 THEN <<>>
    ELSE FragmentsFor(ds, n - 1, id)
         \o (IF LastSeenId(ds, n) = id /\ ds[n].arguments # ""
             THEN <<ds[n].arguments>> ELSE <<>>)

\* C28: a tool-call delta that carries an id is accumulated into the tool
\* call with that id, and a delta without id into the tool call with the most
\* recently seen id, the id of the latest preceding delta that had one.
C28_DeltaGoesToLastSeenId ==
    \A id \in ToolCallIds :
        (\E n \in 1..Len(deltas) : deltas[n].id = id)
            => /\ id \in CallKeys(tool_calls)
               /\ tool_calls[CallAt(tool_calls, id)].arguments
                      = FragmentsFor(deltas, Len(deltas), id)

(***************************************************************************)
(* Claims about the background tasks                                       *)
(***************************************************************************)
\* C29: start_all and stop_all attempt every registered task; a start or
\* stop failure of one task is not propagated to the caller and does not
\* keep start (respectively stop) from being invoked on each other task.
\* A call never raises; while it runs it has invoked the tasks before its
\* position, failed ones included; and it ends having invoked every registered
\* task once, in the order of registration.
C29_EveryTaskAttempted ==
    /\ [](mgrResult # "raised")
    /\ [](mgrFailed \subseteq {mgrInvoked[i] : i \in 1..Len(mgrInvoked)})
    /\ [](mgrPc # "idle" => mgrInvoked = SubSeq(mgrTasks, 1, mgrIndex))
    /\ [][(mgrPc # "idle" /\ mgrPc' = "idle")
              => (mgrResult' = "returned" /\ mgrInvoked' = mgrTasks)]_vars

\* start_all has returned after the first of three tasks failed to start
C29_Witness ==
    /\ mgrPc = "idle" /\ mgrResult = "returned" /\ mgrRunning
    /\ Len(mgrTasks) = 3 /\ mgrInvoked = mgrTasks
    /\ mgrTasks[1] \in mgrFailed

\* C30: consecutive_failures is reset to zero by every health check that
\* reports healthy and incremented by exactly one by every check that reports
\* unhealthy or raises, so it always equals the number of failed checks since
\* the last healthy one.
C30_CountsFailedChecks ==
    /\ [](consecutive_failures = failedChecks)
    /\ [][(healthPc = "checking" /\ healthPc' = "sleeping")
              => \/ last_status' = "healthy" /\ consecutive_failures' = 0
                 \/ last_status' # "healthy"
                        /\ consecutive_failures' = consecutive_failures + 1]_vars
    /\ [][consecutive_failures' # consecutive_failures => healthPc = "checking"]_vars

\* a healthy check has just reset a counter that was above zero
C30_Witness ==
    /\ healthLog = "info" /\ last_status = "healthy"
    /\ consecutive_failures = 0 /\ healthPc = "sleeping"

C35_LiveLoopAccountedFor ==
    (Live(loopPc) /\ ~cancelRequested) => (running /\ taskSet)

(***************************************************************************)
(* Claims about the diffusion model wrapper                                *)
(***************************************************************************)
\* C32: the wrapper loads device, precision, optimizations and pipeline
\* exactly once, at construction, and its ready flag is true only after a load
\* has completed successfully.
C32_LoadedOnceAtConstruction ==
    /\ modelReady => loads >= 1
    /\ mainPc \in {"constructed", "loaded", "serving"} => loads = 1

\* DTYPE=bfloat16 is requested, bfloat16 is not supported by the device, and
\* load() has resolved the precision
Bf16Fallback ==
    /\ resolvedDtype # "none"
    /\ runtimeEnv.dtype = "bfloat16"
    /\ ~(runtimeEnv.device = "cuda" /\ runtimeEnv.bf16 /\ runtimeEnv.major >= 8)

\* the precision of the model's config, float32 when it names no other
NativeOf(e) ==
    IF e.config = "torch.bfloat16" THEN "bfloat16"
    ELSE IF e.config = "torch.float16" THEN "float16"
    ELSE "float32"

\* C33, as stated: when DTYPE=bfloat16 is requested and bfloat16 is not
\* supported by the device, the resolved precision is the model's native
\* precision if that is not float32, otherwise float16 on CUDA, otherwise
\* float32.
C33_Bf16FallsBackToNative ==
    Bf16Fallback =>
        resolvedDtype = (IF NativeOf(runtimeEnv) # "float32" THEN NativeOf(runtimeEnv)
                         ELSE IF runtimeEnv.device = "cuda" THEN "float16"
                         ELSE "float32")

\* C33, amended: on CUDA the resolved precision is the model's native
\* precision if that is not float32 and float16 otherwise; on any other
\* device it is float32, whatever the model's native precision.
C33_Bf16FallbackByDevice ==
    Bf16Fallback =>
        resolvedDtype = (IF runtimeEnv.device # "cuda" THEN "float32"
                         ELSE IF NativeOf(runtimeEnv) # "float32" THEN NativeOf(runtimeEnv)
                         ELSE "float16")

\* bfloat16 was requested on a CPU for a model trained in float16
C33_Witness ==
    /\ Bf16Fallback
    /\ runtimeEnv.device = "cpu" /\ runtimeEnv.config = "torch.float16"
    /\ resolvedDtype = "float32"

(***************************************************************************)
(* Claims about what failures leave behind                                 *)
(***************************************************************************)
\* C34: after any mutating storage operation (save_image, delete_image,
\* cleanup_expired_images) has returned or raised, every image id in the
\* backend has either both its image object and its metadata object or
\* neither of them: no operation leaves one half of a pair behind.
C34_PairsComplete ==
    (\A t \in Tasks : ~InCriticalSection(t))
        => \A id \in ImageIds : img[id].present = meta[id].present


\* C36: when the retry wrapper gives up after its final attempt, the error it
\* raises describes the failure of that final attempt: it carries the number
\* of the last request made, also when that request was answered with a
\* status below 400 that differs from the expected one.
C36_GiveUpErrorIsOfFinalAttempt ==
    (kPc = "done" /\ kResult.kind \notin {"none", "return"}) =>
        kResult.at = Len(kRequests)


\* C37: a generate_image that raises leaves no image under the id of that
\* request: an image object appears or changes in the storage only in a
\* call that returns a response whose image_id and url refer to it.
C37_PersistedOnlyOnSuccess ==
    [][\A id \in ImageIds :
          srvStore'.png[id] # srvStore.png[id] =>
              /\ generated'.kind = "ok"
              /\ generated'.image_id = id
              /\ generated'.url = Url(STORAGE_URL, PngName(id))
      ]_vars


\* C38: an initialize() that follows shutdown() configures the service again
\* from the config file: the call leaves the configuration loaded and the
\* client set, and starts the discovery of the configured servers' tools.
C38_InitializeAfterShutdownConfigures ==
    [][(~configLoaded /\ ~initialized /\ initialized') =>
          (configLoaded' /\ client' /\ initPc' = "discovering")]_vars


\* C39: when a call of initialize() returns normally the tool discovery of
\* that initialization has finished: no initialize() returns as a no-op
\* while a discovery started by another call is still in progress.
C39_ReturnsAfterDiscovery ==
    [][(initResult' = "noop" /\ initResult # "noop") => initPc' # "discovering"]_vars


\* C40: during one shutdown() of the application the KServe client, when
\* startup created one, has its close() invoked exactly once.
C40_KServeClosedOnce ==
    (shutdownPc = "done" /\ app_state["kserve_client"]) => kserveCloses = 1

====
